---- MODULE Spec2Model ----
(***************************************************************************)
(* Virtual-memory subsystem of the kernel: the frame tracker               *)
(* (os/src/mm/mframe.rs), the file tracker (os/src/mm/mfile.rs) and the    *)
(* map-area / address-space layer (os/src/mm/memory_set.rs).               *)
(*                                                                         *)
(* A page is abstracted to one content value (its "bytes"); a page-table   *)
(* entry is the pair (flags, ppn); the key of a tracker record is the      *)
(* address of the entry, here the pair <<address space, vpn>>.             *)
(***************************************************************************)
EXTENDS Integers, Sequences, FiniteSets, TLC

\* ------------------------------------------------------------------ bounds
MaxSpaces == 2
MaxAreas == 5
FilePageCount == 3
UserPages == 4
StackPages == 1
MaxInodes == 2
MaxBlocks == 4
MaxDirents == 3
MaxCpus == 4

PAGE_SIZE == 4096

Spaces == 1 .. MaxSpaces
TRAP_CONTEXT_VPN == UserPages
TRAMPOLINE_VPN == UserPages + 1
VPNS == 0 .. TRAMPOLINE_VPN
Keys == Spaces \X VPNS
\* physical frames: two for every entry (the shared one and the copy) and one for
\* every file page can be held at a time
KeyCount == MaxSpaces * (TRAMPOLINE_VPN + 1)
KeyIndex(k) == (k[1] - 1) * (TRAMPOLINE_VPN + 1) + k[2] + 1
PosIndex(pos) == 2 * KeyCount + (pos[2] \div PAGE_SIZE) + 1
Frames == 1 .. (2 * KeyCount + FilePageCount)
TrampolineFrame == 0 - 1

\* the inodes on the disk; the ELF file is the first one
Inodes == {1}
FilePages == 0 .. (FilePageCount - 1)
FilePosSet == Inodes \X {p * PAGE_SIZE : p \in FilePages}
\* the bytes of the file page at pos = <<inode, offset>>: never zero, one value per page
FileBytes(pos) == 10 * pos[1] + (pos[2] \div PAGE_SIZE)
NoPos == <<0, 0>>

Min(S) == CHOOSE x \in S : \A y \in S : x <= y
Max(S) == CHOOSE x \in S : \A y \in S : x >= y
ElfInode == Min(Inodes)

\* ------------------------------------------------------------------ state
VARIABLES
    pt,        \* page tables: [Keys -> [flags, ppn]]
    areas,     \* MemorySet.areas of each address space (a sequence, in Vec order)
    live,      \* the address spaces that exist
    fmap,      \* MFRAME_MANAGER.map: [Keys -> [t, f]]
    filemap,   \* MFILE_MANAGER.map: [Keys -> FilePos or NoPos]
    files,     \* MFILE_MANAGER.files: [FilePosSet -> -1 absent | 0 not resident | frame]
    mem,       \* content of each physical frame
    used,      \* frames handed out by the frame allocator
    halt,      \* "ok" | "panic" | "deadlock": the kernel runs, has panicked, spins for ever
    disk,      \* the inodes on the block device: [bytes: page contents, size: bytes]
    touched,   \* per forked space: the vpns it or its parent wrote or remapped since the fork
    last       \* the value the last mmap, munmap or page_fault returned (0 after the others)

vars == <<pt, areas, live, fmap, filemap, files, mem, used, halt, disk, touched, last>>

\* the kernel state the handlers transform, as one record
Cur == [pt |-> pt, areas |-> areas, live |-> live, fmap |-> fmap, filemap |-> filemap,
        files |-> files, mem |-> mem, used |-> used, disk |-> disk, st |-> halt, ret |-> 0]

Halt(s, how) == IF s.st = "ok" THEN [s EXCEPT !.st = how] ELSE s

\* ------------------------------------------------------- page-table entries
EmptyPTE == [flags |-> {}, ppn |-> 0]
PTENew(ppn, flags) == [flags |-> flags, ppn |-> ppn]
PTEValid(p) == "V" \in p.flags

\* PageTableEntry::invalidate: the entry becomes PageTableEntry::empty()
Invalidate(s, k) == [s EXCEPT !.pt[k] = EmptyPTE]

\* PageTableEntry::revive_writability
ReviveWritability(p) == [p EXCEPT !.flags = @ \cup {"W"}]

\* a conversion that loses the X bit
PermToFlags_nox(perm) == perm \ {"X"}

\* From<MapPermission> for PTEFlags
PermToFlags(perm) == perm

\* ---------------------------------------------------------- frame allocator
FreeFrames(s) == Frames \ s.used
\* frame_alloc: some free frame (0 when none is left); which one is the allocator's
\* affair, the model takes the frame numbered h, or h + KeyCount, when it is free
FrameAlloc(s, h) ==
    IF FreeFrames(s) = {} THEN 0
    ELSE IF h \in FreeFrames(s) THEN h
    ELSE IF h + KeyCount \in FreeFrames(s) THEN h + KeyCount
    ELSE Min(FreeFrames(s))
Taken(s, f) == [s EXCEPT !.used = @ \cup {f}, !.mem[f] = 0]
\* FrameTracker::drop
FrameDealloc(s, f) == [s EXCEPT !.used = @ \ {f}, !.mem[f] = 0]

\* ------------------------------------------------------------ frame tracker
NoRec == [t |-> "None", f |-> 0]
LazyRec == [t |-> "Lazy", f |-> 0]
OwndRec(f) == [t |-> "Ownd", f |-> f]
COWRec(f) == [t |-> "COW", f |-> f]

\* Arc::strong_count of the shared frame f
StrongCount(s, f) == Cardinality({k \in Keys : s.fmap[k] = COWRec(f)})

\* drop of an MFrame value that has left the map
DropMFrame(s, rec) ==
    IF rec.t = "Ownd" THEN FrameDealloc(s, rec.f)
    ELSE IF rec.t = "COW" /\ StrongCount(s, rec.f) = 0 THEN FrameDealloc(s, rec.f)
    ELSE s

\* BTreeMap::insert on MFRAME_MANAGER.map, the value it replaces is dropped
FInsert(s, k, rec) == DropMFrame([s EXCEPT !.fmap[k] = rec], s.fmap[k])

MFrame_map_lazy(s, k) ==
    IF s.st # "ok" THEN s
    ELSE Invalidate(FInsert(s, k, LazyRec), k)

MFrame_load(s, k, flags) ==
    IF s.st # "ok" THEN s
    ELSE CASE s.fmap[k].t = "None" -> Halt(s, "panic")
           [] s.fmap[k].t = "Ownd" -> s
           [] s.fmap[k].t = "COW" -> Halt(s, "panic")
           [] OTHER ->
                LET f == FrameAlloc(s, KeyIndex(k)) IN
                IF f = 0 THEN Halt(s, "oom")
                ELSE [Taken(s, f) EXCEPT !.pt[k] = PTENew(f, flags), !.fmap[k] = OwndRec(f)]

MFrame_map_strict(s, k, flags) == MFrame_load(MFrame_map_lazy(s, k), k, flags)

MFrame_cown_lastref(s, k) ==
    LET f == s.fmap[k].f IN
    [s EXCEPT !.pt[k] = ReviveWritability(PTENew(f, s.pt[k].flags)),
              !.fmap[k] = OwndRec(f)]

\* a copy arm that hands out the new frame without copying the shared bytes into it
MFrame_cown_copy_blank(s, k) ==
    LET f == FrameAlloc(s, KeyIndex(k)) IN
    IF f = 0 THEN Halt(s, "oom")
    ELSE [Taken(s, f) EXCEPT !.pt[k] = ReviveWritability(PTENew(f, s.pt[k].flags)),
                             !.fmap[k] = OwndRec(f)]

MFrame_cown_copy(s, k) ==
    LET shared == s.fmap[k].f
        f == FrameAlloc(s, KeyIndex(k))
    IN  IF f = 0 THEN Halt(s, "oom")
        ELSE [Taken(s, f) EXCEPT !.mem[f] = s.mem[shared],
                                 !.pt[k] = ReviveWritability(PTENew(f, s.pt[k].flags)),
                                 !.fmap[k] = OwndRec(f)]

\* a cown that never copies: the shared frame is made writable where it is
MFrame_cown_inplace(s, k) ==
    IF s.st # "ok" \/ s.fmap[k].t # "COW" THEN s
    ELSE MFrame_cown_lastref(s, k)

MFrame_cown(s, k) ==
    IF s.st # "ok" THEN s
    ELSE CASE s.fmap[k].t = "None" -> Halt(s, "panic")
           [] s.fmap[k].t = "Lazy" -> Halt(s, "panic")
           [] s.fmap[k].t = "Ownd" -> s
           [] OTHER ->
                IF StrongCount(s, s.fmap[k].f) > 1
                THEN MFrame_cown_copy(s, k)
                ELSE MFrame_cown_lastref(s, k)

\* an unmap that forgets the removed record instead of dropping it
MFrame_unmap_forget(s, k) ==
    IF s.st # "ok" THEN s
    ELSE CASE s.fmap[k].t = "None" -> Halt(s, "panic")
           [] s.fmap[k].t = "Lazy" -> [s EXCEPT !.fmap[k] = NoRec]
           [] OTHER -> Invalidate([s EXCEPT !.fmap[k] = NoRec], k)

\* MFrameManager::unmap
MFrame_unmap(s, k) ==
    IF s.st # "ok" THEN s
    ELSE CASE s.fmap[k].t = "None" -> Halt(s, "panic")
           [] s.fmap[k].t = "Lazy" -> [s EXCEPT !.fmap[k] = NoRec]
           [] OTHER -> DropMFrame(Invalidate([s EXCEPT !.fmap[k] = NoRec], k), s.fmap[k])

\* a share that leaves the W bit in the flags of the shared entries
ShareFlags_keep(flags) == flags

ShareFlags(flags) == flags \ {"W"}

\* a share that gives the borrower a fresh Lazy record whatever the origin holds
MFrame_share_lazy(s, ko, kb) ==
    IF s.st # "ok" THEN s
    ELSE IF s.fmap[ko].t = "None" THEN Halt(s, "panic")
    ELSE FInsert(s, kb, LazyRec)

MFrame_share_cow(s, ko, kb) ==
    IF s.st # "ok" THEN s
    ELSE CASE s.fmap[ko].t = "None" -> Halt(s, "panic")
           [] s.fmap[ko].t = "Lazy" -> FInsert(s, kb, LazyRec)
           [] s.fmap[ko].t = "Ownd" ->
                LET f == s.fmap[ko].f
                    flags == ShareFlags(s.pt[ko].flags)
                IN  FInsert([s EXCEPT !.pt[ko] = PTENew(f, flags),
                                      !.pt[kb] = PTENew(f, flags),
                                      !.fmap[ko] = COWRec(f)], kb, COWRec(f))
           [] OTHER ->
                LET f == s.fmap[ko].f IN
                FInsert([s EXCEPT !.pt[kb] = PTENew(f, s.pt[ko].flags)], kb, COWRec(f))

\* MFrameHandle::strict_dup: an eager copy of an Owned page into a new Owned page
MFrame_strict_dup(s, ko, kb) ==
    IF s.st # "ok" THEN s
    ELSE IF s.fmap[ko].t # "Ownd" THEN Halt(s, "panic")
    ELSE LET s1 == MFrame_map_strict(s, kb, s.pt[ko].flags) IN
         IF s1.st # "ok" THEN s1
         ELSE [s1 EXCEPT !.mem[s1.fmap[kb].f] = s.mem[s.fmap[ko].f]]

\* ------------------------------------------------------------- file tracker
MFileLoaded(s, pos) == s.files[pos] > 0

\* MFileManager::map
MFile_map(s, k, inode, offset) ==
    IF s.st # "ok" THEN s
    ELSE LET pos == <<inode, offset>> IN
         IF pos \notin FilePosSet THEN Halt(s, "range")
         ELSE IF s.filemap[k] # NoPos THEN Halt(s, "panic")
         ELSE [s EXCEPT !.files[pos] = IF @ = 0 - 1 THEN 0 ELSE @,
                        !.filemap[k] = pos]

\* an unmap that leaves the entry as it is
MFile_unmap_keep(s, k) ==
    IF s.st # "ok" THEN s
    ELSE [s EXCEPT !.filemap[k] = NoPos]

\* MFileManager::unmap
MFile_unmap(s, k) ==
    IF s.st # "ok" THEN s
    ELSE IF s.filemap[k] = NoPos THEN s
    ELSE LET s1 == [s EXCEPT !.filemap[k] = NoPos] IN
         IF MFileLoaded(s, s.filemap[k]) THEN Invalidate(s1, k) ELSE s1

\* a load that takes a new resident frame even when the file has one
MFile_load_frame_fresh(s, k, pos) ==
    LET f == FrameAlloc(s, KeyIndex(k)) IN
    IF f = 0 THEN Halt(s, "oom")
    ELSE [Taken(s, f) EXCEPT !.files[pos] = f]

\* MFile::load: the frame is allocated, the file is not read into it
MFile_load_frame(s, k, pos) ==
    IF MFileLoaded(s, pos) THEN s
    ELSE LET f == FrameAlloc(s, PosIndex(pos)) IN
         IF f = 0 THEN Halt(s, "oom")
         ELSE [Taken(s, f) EXCEPT !.files[pos] = f]

\* MFileManager::load
MFile_load(s, k, flags) ==
    IF s.st # "ok" THEN s
    ELSE IF s.filemap[k] = NoPos THEN Halt(s, "panic")
    ELSE LET s1 == MFile_load_frame(s, k, s.filemap[k]) IN
         IF s1.st # "ok" THEN s1
         ELSE [s1 EXCEPT !.pt[k] = PTENew(s1.files[s.filemap[k]], flags)]

\* Inode::write_at of one page at the offset of pos: the size grows to hold the page
Inode_write_at(s, pos, bytes) ==
    [s EXCEPT !.disk.bytes[pos] = bytes,
              !.disk.size[pos[1]] = Max({@, pos[2] + PAGE_SIZE})]

\* MFile::sync: the resident frame is written to the inode and released
MFile_sync(s, pos) ==
    IF ~MFileLoaded(s, pos) THEN s
    ELSE FrameDealloc(Inode_write_at(s, pos, s.mem[s.files[pos]]), s.files[pos])

\* the loop of MFileManager::slim over the files no entry is mapped to
RECURSIVE MFile_slim_loop(_, _)
MFile_slim_loop(s, recycle) ==
    IF recycle = {} THEN s
    ELSE LET pos == CHOOSE x \in recycle : \A y \in recycle : PosIndex(x) <= PosIndex(y) IN
         MFile_slim_loop([MFile_sync(s, pos) EXCEPT !.files[pos] = 0 - 1], recycle \ {pos})

\* a slim that recycles every file, referenced or not
MFile_slim_all(s) ==
    MFile_slim_loop(s, {pos \in FilePosSet : s.files[pos] # 0 - 1})

\* MFileManager::slim
MFile_slim(s) ==
    MFile_slim_loop(s, {pos \in FilePosSet :
                          s.files[pos] # 0 - 1 /\ \A k \in Keys : s.filemap[k] # pos})

\* MFileHandle::strict_dup / MFileManager::strict_dup
MFile_strict_dup(s, k, frame) ==
    IF s.st # "ok" THEN s
    ELSE IF s.filemap[k] = NoPos THEN Halt(s, "panic")
    ELSE IF ~MFileLoaded(s, s.filemap[k]) THEN Halt(s, "panic")
    ELSE [s EXCEPT !.mem[frame] = s.mem[s.files[s.filemap[k]]]]

\* MFileHandle::share_fully: MFILE_MANAGER is locked, and locked again while the
\* first guard is alive; spin::Mutex is not reentrant, the second lock never returns
MFile_share_fully(s, k, other) ==
    IF s.st # "ok" THEN s
    ELSE IF s.filemap[k] = NoPos THEN Halt(s, "panic")
    ELSE Halt(s, "deadlock")

\* ---------------------------------------------------------------- Page
\* a Page is its variant (the handle's pte is the key of the page)
Page_present(s, k) == PTEValid(s.pt[k])

\* Page::load
Page_load(s, k, page, flags) ==
    CASE page = "Identity" -> s
      [] page = "Framed" -> MFrame_load(s, k, flags)
      [] page = "FileShared" -> MFile_load(s, k, flags)
      [] OTHER -> MFile_load(s, k, flags \ {"W"})

\* drop of a Page: MFrameHandle::drop, MFileHandle::drop, MIdentityHandle::drop
Page_drop(s, k, page) ==
    CASE page = "Identity" -> IF s.st # "ok" THEN s ELSE Invalidate(s, k)
      [] page = "Framed" -> MFrame_unmap(s, k)
      [] OTHER -> MFile_unmap(s, k)

\* Page::fork
Page_fork(s, k, page, other) ==
    CASE page = "Identity" ->
            IF s.st # "ok" THEN s ELSE [s EXCEPT !.pt[other] = s.pt[k]]
      [] page = "Framed" -> MFrame_share_cow(s, k, other)
      [] OTHER -> MFile_share_fully(s, k, other)

\* a fork_strict that shares the page copy-on-write as Page::fork does
Page_fork_strict_shared(s, k, page, other) == Page_fork(s, k, page, other)

\* Page::fork_strict
Page_fork_strict(s, k, page, other) ==
    IF s.st # "ok" THEN s
    ELSE IF page # "Framed" THEN Halt(s, "panic")
    ELSE MFrame_strict_dup(s, k, other)

\* Page::cown
Page_cown(s, k, page) ==
    IF s.st # "ok" THEN s
    ELSE IF page # "Framed" THEN s
    ELSE IF s.fmap[k].t = "None" THEN Halt(s, "panic")
    ELSE IF s.fmap[k].t = "COW" THEN MFrame_cown(s, k)
    ELSE s

\* the file handle of the page is dropped when the page becomes Page::Framed
Page_fown_replace(s, k) == MFile_unmap(s, k)

\* Page::fown, the state after it; the variant becomes Framed when it returns true
Page_fown(s, k, page) ==
    IF s.st # "ok" THEN s
    ELSE IF page # "FilePriv" THEN s
    ELSE IF ~("W" \notin s.pt[k].flags /\ "V" \in s.pt[k].flags) THEN Halt(s, "panic")
    ELSE LET s1 == MFrame_map_strict(s, k, s.pt[k].flags \cup {"W"})
             s2 == IF s1.st # "ok" THEN s1 ELSE MFile_strict_dup(s1, k, s1.fmap[k].f)
         IN  Page_fown_replace(s2, k)

\* ---------------------------------------------------------------- VPNRange
RangeSet(s, e) == {v \in VPNS : s <= v /\ v < e}
\* VPNRange::intersects
Intersects(s1, e1, s2, e2) == RangeSet(s1, e1) \cap RangeSet(s2, e2) # {}
\* VPNRange::exclude, its third component: the part of [s1,e1) inside [s2,e2)
ExcludeRem(s1, e1, s2, e2) == RangeSet(s1, e1) \cap RangeSet(s2, e2)

\* an is_critical that knows the trampoline only
is_critical_trampoline(vpn) == vpn = TRAMPOLINE_VPN

\* is_critical
is_critical(vpn) == vpn = TRAMPOLINE_VPN \/ vpn = TRAP_CONTEXT_VPN

\* ---------------------------------------------------------------- MapArea
\* data_frames of an area: a function from its vpns to the Page variants
NoPages == [v \in {} |-> "Framed"]
NoFile == 0

Area(s, e, ty, perm, file, off, pages) ==
    [s |-> s, e |-> e, ty |-> ty, perm |-> perm, file |-> file, off |-> off, pages |-> pages]

PageOfType(ty) == ty

\* the offset MapArea::map registers the page of vpn at
MapOffset(start_vpn, file_offset, vpn) == (vpn - start_vpn) * PAGE_SIZE

\* one round of the loops of MapArea::map
MapArea_map_one(st, k, ty, perm, file, offset) ==
    CASE ty = "Identity" ->
            IF st.st # "ok" THEN st
            ELSE [st EXCEPT !.pt[k] = PTENew(k[2], PermToFlags(perm) \cup {"V"})]
      [] ty = "Framed" -> MFrame_map_lazy(st, k)
      [] OTHER -> MFile_map(st, k, file, offset)

RECURSIVE MapArea_map_pages(_, _, _, _, _, _, _, _)
MapArea_map_pages(st, a, ty, perm, file, off, start, vs) ==
    IF vs = {} THEN st
    ELSE LET v == Min(vs) IN
         MapArea_map_pages(
            MapArea_map_one(st, <<a, v>>, ty, perm, file, MapOffset(start, off, v)),
            a, ty, perm, file, off, start, vs \ {v})

\* the assertions at the head of MapArea::map, and of VPNRange::new
MapArea_map_asserts(start, end, ty, file, off) ==
    /\ start <= end
    /\ IF ty \in {"Identity", "Framed"}
       THEN file = NoFile /\ off = 0
       ELSE file # NoFile /\ off % PAGE_SIZE = 0

\* MapArea::map without data_frames_override: <<state, area>>
MapArea_map(st, a, start, end, ty, perm, file, off) ==
    IF st.st # "ok" THEN <<st, Area(start, start, ty, perm, file, off, NoPages)>>
    ELSE IF ~MapArea_map_asserts(start, end, ty, file, off)
    THEN <<Halt(st, "panic"), Area(start, start, ty, perm, file, off, NoPages)>>
    ELSE <<MapArea_map_pages(st, a, ty, perm, file, off, start, RangeSet(start, end)),
           Area(start, end, ty, perm, file, off,
                [v \in RangeSet(start, end) |-> PageOfType(ty)])>>

\* MapArea::load_one
MapArea_load_one(st, a, area, vpn) ==
    IF st.st # "ok" THEN st
    ELSE IF vpn \notin DOMAIN area.pages THEN Halt(st, "panic")
    ELSE Page_load(st, <<a, vpn>>, area.pages[vpn], PermToFlags(area.perm) \cup {"V"})

RECURSIVE MapArea_load_pages(_, _, _, _)
MapArea_load_pages(st, a, area, vs) ==
    IF vs = {} THEN st
    ELSE MapArea_load_pages(MapArea_load_one(st, a, area, Min(vs)), a, area, vs \ {Min(vs)})

\* MapArea::load_all
MapArea_load_all(st, a, area) == MapArea_load_pages(st, a, area, RangeSet(area.s, area.e))

\* MapArea::copy_data: the page of vpn receives the bytes of the file page at
\* offset + (vpn - start) * PAGE_SIZE of the ELF image
RECURSIVE MapArea_copy_pages(_, _, _, _, _)
MapArea_copy_pages(st, a, area, offset, vs) ==
    IF vs = {} \/ st.st # "ok" THEN st
    ELSE LET v == Min(vs) IN
         MapArea_copy_pages(
            [st EXCEPT !.mem[st.pt[<<a, v>>].ppn] =
                            FileBytes(<<ElfInode, offset + (v - area.s) * PAGE_SIZE>>)],
            a, area, offset, vs \ {v})

MapArea_copy_data(st, a, area, offset) ==
    MapArea_copy_pages(MapArea_load_all(st, a, area), a, area, offset, RangeSet(area.s, area.e))

\* drop of a MapArea: its pages are dropped in vpn order
RECURSIVE MapArea_drop_pages(_, _, _, _)
MapArea_drop_pages(st, a, pages, vs) ==
    IF vs = {} THEN st
    ELSE LET v == Min(vs) IN
         MapArea_drop_pages(Page_drop(st, <<a, v>>, pages[v]), a, pages, vs \ {v})

MapArea_drop(st, a, area) == MapArea_drop_pages(st, a, area.pages, DOMAIN area.pages)

\* the file_offset of the right half of MapArea::split
SplitRightOffset(area, vpn) ==
    IF area.file # NoFile THEN area.off + (vpn - area.s) * PAGE_SIZE ELSE 0

\* a split whose right half loses its page handles
MapArea_split_bare(area, vpn) ==
    LET other == Area(vpn, vpn, area.ty, area.perm, area.file, area.off, NoPages) IN
    IF vpn <= area.s THEN <<other, area>>
    ELSE IF vpn >= area.e THEN <<area, other>>
    ELSE <<Area(area.s, vpn, area.ty, area.perm, area.file, area.off,
                [v \in {x \in DOMAIN area.pages : x < vpn} |-> area.pages[v]]),
           Area(vpn, area.e, area.ty, area.perm, area.file, SplitRightOffset(area, vpn),
                NoPages)>>

\* MapArea::split: <<left, right>>
MapArea_split(area, vpn) ==
    LET other == Area(vpn, vpn, area.ty, area.perm, area.file, area.off, NoPages) IN
    IF vpn <= area.s THEN <<other, area>>
    ELSE IF vpn >= area.e THEN <<area, other>>
    ELSE <<Area(area.s, vpn, area.ty, area.perm, area.file, area.off,
                [v \in {x \in DOMAIN area.pages : x < vpn} |-> area.pages[v]]),
           Area(vpn, area.e, area.ty, area.perm, area.file, SplitRightOffset(area, vpn),
                [v \in {x \in DOMAIN area.pages : ~(x < vpn)} |-> area.pages[v]])>>

\* the assertions of MapArea::merge
MapArea_merge_asserts(l, r) ==
    /\ l.e = r.s
    /\ l.ty = r.ty
    /\ l.perm = r.perm
    /\ l.file = r.file
    /\ l.ty \in {"FileShared", "FilePriv"} => l.off + (l.e - l.s) * PAGE_SIZE = r.off

\* MapArea::merge, when its assertions hold
MapArea_merge(l, r) ==
    IF l.e - l.s = 0 THEN r
    ELSE IF r.e - r.s = 0 THEN l
    ELSE [l EXCEPT !.e = r.e,
                   !.pages = [v \in DOMAIN l.pages \cup DOMAIN r.pages |->
                                IF v \in DOMAIN r.pages THEN r.pages[v] ELSE l.pages[v]]]

\* the file_offset MapArea::append_to maps the new pages with
AppendOffset(area) ==
    IF area.file # NoFile THEN area.off + (area.e - area.s) * PAGE_SIZE ELSE 0

\* MapArea::append_to: <<state, area>>
MapArea_append_to(st, a, area, new_end) ==
    LET r == MapArea_map(st, a, area.e, new_end, area.ty, area.perm, area.file,
                         AppendOffset(area))
    IN  IF r[1].st # "ok" THEN <<r[1], area>>
        ELSE IF ~MapArea_merge_asserts(area, r[2]) THEN <<Halt(r[1], "panic"), area>>
        ELSE <<r[1], MapArea_merge(area, r[2])>>

\* MapArea::shrink_to: <<state, area>>, the right half of the split is dropped
MapArea_shrink_to(st, a, area, new_end) ==
    LET lr == MapArea_split(area, new_end) IN
    <<MapArea_drop(st, a, lr[2]), lr[1]>>

\* -------------------------------------------------------------- MemorySet
Push(st, a, area) == [st EXCEPT !.areas[a] = Append(@, area)]

\* VPNRange::contains
Contains(area, vpn) == area.s <= vpn /\ vpn < area.e

\* areas.iter().find(|x| x.vpn_range.contains(&vpn)): the first such area, 0 when none
FindAreaContaining(seq, vpn) ==
    IF \E i \in 1 .. Len(seq) : Contains(seq[i], vpn)
    THEN Min({i \in 1 .. Len(seq) : Contains(seq[i], vpn)})
    ELSE 0

\* areas.iter_mut().find(|area| area.vpn_range.get_start() == start): the first such
\* area, 0 when none
FindAreaStartingAt(seq, start) ==
    IF \E i \in 1 .. Len(seq) : seq[i].s = start
    THEN Min({i \in 1 .. Len(seq) : seq[i].s = start})
    ELSE 0

\* MemorySet::map_trampoline
MemorySet_map_trampoline(st, a) ==
    [st EXCEPT !.pt[<<a, TRAMPOLINE_VPN>>] = PTENew(TrampolineFrame, {"R", "X", "V"})]

\* a has_mapped that looks at the first page of the range only
MemorySet_has_mapped_start(seq, s, e) ==
    \E i \in 1 .. Len(seq) : Contains(seq[i], s)

\* MemorySet::has_mapped
MemorySet_has_mapped(seq, s, e) ==
    \E i \in 1 .. Len(seq) : Intersects(seq[i].s, seq[i].e, s, e)

RECURSIVE SumRem(_, _, _, _)
SumRem(seq, i, s, e) ==
    IF i > Len(seq) THEN 0
    ELSE Cardinality(ExcludeRem(seq[i].s, seq[i].e, s, e)) + SumRem(seq, i + 1, s, e)

\* MemorySet::has_unmapped
MemorySet_has_unmapped(seq, s, e) == SumRem(seq, 1, s, e) # Cardinality(RangeSet(s, e))

\* MemorySet::mmap
MemorySet_mmap(st, a, s, e, perm) ==
    IF \E v \in RangeSet(s, e) : is_critical(v) THEN [st EXCEPT !.ret = 0 - 1]
    ELSE IF MemorySet_has_mapped(st.areas[a], s, e) THEN [st EXCEPT !.ret = 0 - 1]
    ELSE LET r == MapArea_map(st, a, s, e, "Framed", perm, NoFile, 0) IN
         [Push(r[1], a, r[2]) EXCEPT !.ret = 0]

\* the loop of MemorySet::munmap over the areas taken out of the address space
RECURSIVE MemorySet_munmap_loop(_, _, _, _, _, _)
MemorySet_munmap_loop(st, a, todo, i, s, e) ==
    IF i > Len(todo) THEN st
    ELSE LET area == todo[i]
             rem == ExcludeRem(area.s, area.e, s, e)
         IN  IF rem = {}
             THEN MemorySet_munmap_loop(Push(st, a, area), a, todo, i + 1, s, e)
             ELSE LET lr == MapArea_split(area, Min(rem))
                      mr == MapArea_split(lr[2], Max(rem) + 1)
                      s1 == IF lr[1].s # lr[1].e THEN Push(st, a, lr[1]) ELSE st
                      s2 == IF mr[2].s # mr[2].e THEN Push(s1, a, mr[2]) ELSE s1
                 IN  MemorySet_munmap_loop(MapArea_drop(s2, a, mr[1]), a, todo, i + 1, s, e)

\* MemorySet::munmap
MemorySet_munmap(st, a, s, e) ==
    IF \E v \in RangeSet(s, e) : is_critical(v) THEN [st EXCEPT !.ret = 0 - 1]
    ELSE IF MemorySet_has_unmapped(st.areas[a], s, e) THEN [st EXCEPT !.ret = 0 - 1]
    ELSE [MemorySet_munmap_loop([st EXCEPT !.areas[a] = <<>>], a, st.areas[a], 1, s, e)
            EXCEPT !.ret = 0]

\* MapArea::fork and MapArea::fork_strict: the pages are forked in vpn order
RECURSIVE MapArea_fork_pages(_, _, _, _, _, _)
MapArea_fork_pages(st, a, c, area, strict, vs) ==
    IF vs = {} THEN st
    ELSE LET v == Min(vs)
             s1 == IF strict
                   THEN Page_fork_strict(st, <<a, v>>, area.pages[v], <<c, v>>)
                   ELSE Page_fork(st, <<a, v>>, area.pages[v], <<c, v>>)
         IN  MapArea_fork_pages(s1, a, c, area, strict, vs \ {v})

MapArea_fork(st, a, c, area, strict) ==
    LET s1 == MapArea_fork_pages(st, a, c, area, strict, DOMAIN area.pages) IN
    IF s1.st # "ok" THEN s1
    ELSE IF ~MapArea_map_asserts(area.s, area.e, area.ty, area.file, area.off)
    THEN Halt(s1, "panic")
    ELSE Push(s1, c, area)

RECURSIVE MemorySet_fork_loop(_, _, _, _)
MemorySet_fork_loop(st, a, c, i) ==
    IF i > Len(st.areas[a]) \/ st.st # "ok" THEN st
    ELSE LET area == st.areas[a][i]
             strict == \E v \in RangeSet(area.s, area.e) : is_critical(v)
         IN  MemorySet_fork_loop(MapArea_fork(st, a, c, area, strict), a, c, i + 1)

\* MemorySet::fork of address space a into the new address space c
MemorySet_fork(st, a, c) ==
    LET s0 == MemorySet_map_trampoline([st EXCEPT !.areas[c] = <<>>], c)
        s1 == MemorySet_fork_loop(s0, a, c, 1)
    IN  IF s1.st # "ok" THEN s1 ELSE [s1 EXCEPT !.live = @ \cup {c}]

\* MemorySet::recycle_data_pages: areas.clear() drops the areas in Vec order
RECURSIVE MemorySet_recycle_loop(_, _, _, _)
MemorySet_recycle_loop(st, a, seq, i) ==
    IF i > Len(seq) THEN st
    ELSE MemorySet_recycle_loop(MapArea_drop(st, a, seq[i]), a, seq, i + 1)

MemorySet_recycle_data_pages(st, a) ==
    [MemorySet_recycle_loop(st, a, st.areas[a], 1) EXCEPT !.areas[a] = <<>>]

\* MemorySet::cown
MemorySet_cown(st, a, vpn) ==
    LET i == FindAreaContaining(st.areas[a], vpn) IN
    IF i = 0 THEN st
    ELSE IF vpn \notin DOMAIN st.areas[a][i].pages THEN Halt(st, "panic")
    ELSE Page_cown(st, <<a, vpn>>, st.areas[a][i].pages[vpn])

\* MemorySet::append_to
MemorySet_append_to(st, a, start, new_end) ==
    LET i == FindAreaStartingAt(st.areas[a], start) IN
    IF i = 0 THEN [st EXCEPT !.ret = 0]
    ELSE LET r == MapArea_append_to(st, a, st.areas[a][i], new_end) IN
         [r[1] EXCEPT !.areas[a][i] = r[2], !.ret = 1]

\* MemorySet::shrink_to
MemorySet_shrink_to(st, a, start, new_end) ==
    LET i == FindAreaStartingAt(st.areas[a], start) IN
    IF i = 0 THEN [st EXCEPT !.ret = 0]
    ELSE LET r == MapArea_shrink_to(st, a, st.areas[a][i], new_end) IN
         [r[1] EXCEPT !.areas[a][i] = r[2], !.ret = 1]

\* ------------------------------------------------------------- page faults
FaultTypes == {"Load", "Store", "Instruction"}

\* permission checks that look at U last
PermCheck_ulast(perm, kind) ==
    IF kind = "Instruction" /\ "X" \notin perm THEN 0 - 3
    ELSE IF kind = "Store" /\ "W" \notin perm THEN 0 - 4
    ELSE IF kind = "Load" /\ "R" \notin perm THEN 0 - 5
    ELSE IF "U" \notin perm THEN 0 - 2
    ELSE 0

\* the permission checks at the head of MapArea::page_fault: 0 when they pass
PermCheck(perm, kind) ==
    IF "U" \notin perm THEN 0 - 2
    ELSE IF kind = "Instruction" /\ "X" \notin perm THEN 0 - 3
    ELSE IF kind = "Store" /\ "W" \notin perm THEN 0 - 4
    ELSE IF kind = "Load" /\ "R" \notin perm THEN 0 - 5
    ELSE 0

\* the arm of MapArea::page_fault for a FileShared area, and for a Load or
\* Instruction fault in a FilePriv area
Fault_file_load(st, a, area, vpn) ==
    IF ~Page_present(st, <<a, vpn>>) THEN MapArea_load_one(st, a, area, vpn)
    ELSE Halt(st, "panic")

\* the arm for a Load or Instruction fault in a Framed area
Fault_framed_load(st, a, area, vpn) ==
    LET k == <<a, vpn>> IN
    IF area.pages[vpn] = "Framed" /\ st.fmap[k].t = "None" THEN Halt(st, "panic")
    ELSE IF area.pages[vpn] = "Framed" /\ st.fmap[k].t = "Lazy"
    THEN IF ~Page_present(st, k) THEN MapArea_load_one(st, a, area, vpn)
         ELSE Halt(st, "panic")
    ELSE Halt(st, "panic")

\* the arm for a Store fault in a Framed area
Fault_framed_store(st, a, area, vpn) ==
    LET k == <<a, vpn>> IN
    IF area.pages[vpn] = "Framed" /\ st.fmap[k].t = "None" THEN Halt(st, "panic")
    ELSE IF area.pages[vpn] = "Framed" /\ st.fmap[k].t = "Lazy"
    THEN IF ~Page_present(st, k) THEN MapArea_load_one(st, a, area, vpn)
         ELSE Halt(st, "panic")
    ELSE IF area.pages[vpn] = "Framed" /\ st.fmap[k].t = "COW"
    THEN Page_cown(st, k, area.pages[vpn])
    ELSE Halt(st, "panic")

\* the arm for a Store fault in a FilePriv area
Fault_priv_store(st, a, area, vpn) ==
    LET k == <<a, vpn>>
        cond2 == "W" \in st.pt[k].flags
        cond1 == Page_present(st, k)
    IN  IF cond2 THEN Halt(st, "panic")
        ELSE IF cond1 THEN Page_fown(st, k, area.pages[vpn])
        ELSE Page_fown(
                Page_load(st, k, area.pages[vpn], PermToFlags(area.perm) \cup {"V"}),
                k, area.pages[vpn])

\* the dispatch of MapArea::page_fault on (fault type, map type)
Fault_dispatch(st, a, area, vpn, kind) ==
    CASE area.ty = "Identity" -> Halt(st, "panic")
      [] area.ty = "FileShared" -> Fault_file_load(st, a, area, vpn)
      [] area.ty = "Framed" /\ kind # "Store" -> Fault_framed_load(st, a, area, vpn)
      [] area.ty = "Framed" /\ kind = "Store" -> Fault_framed_store(st, a, area, vpn)
      [] area.ty = "FilePriv" /\ kind = "Store" -> Fault_priv_store(st, a, area, vpn)
      [] OTHER -> Fault_file_load(st, a, area, vpn)

\* Page::fown replaces the page by Page::Framed when it returns true
PromotedPage(st0, st1, area, vpn, kind) ==
    IF area.ty = "FilePriv" /\ kind = "Store" /\ area.pages[vpn] = "FilePriv" /\ st1.st = "ok"
    THEN "Framed" ELSE area.pages[vpn]

\* MapArea::page_fault on the area at index i
MapArea_page_fault(st, a, i, vpn, kind) ==
    LET area == st.areas[a][i] IN
    IF vpn \notin DOMAIN area.pages THEN Halt(st, "panic")
    ELSE IF PermCheck(area.perm, kind) # 0 THEN [st EXCEPT !.ret = PermCheck(area.perm, kind)]
    ELSE LET s1 == Fault_dispatch(st, a, area, vpn, kind) IN
         [s1 EXCEPT !.areas[a][i].pages[vpn] = PromotedPage(st, s1, area, vpn, kind),
                    !.ret = 0]

\* MemorySet::page_fault
MemorySet_page_fault(st, a, vpn, kind) ==
    LET i == FindAreaContaining(st.areas[a], vpn) IN
    IF i = 0 THEN [st EXCEPT !.ret = 0 - 1]
    ELSE MapArea_page_fault(st, a, i, vpn, kind)

\* ------------------------------------------------------- ELF construction
RWU == {"R", "W", "U"}
RU == {"R", "U"}
Seg(s, e, perm, off) == [s |-> s, e |-> e, perm |-> perm, off |-> off]

\* the ELF images of the model: the Load segments in program-header order
\* (vpn range, permission, file offset), loaded eagerly or lazily
Images ==
    {[lazy |-> l, segs |-> <<Seg(0, 1, RWU, PAGE_SIZE)>>] : l \in BOOLEAN}

\* the loop over the program headers of MemorySet::from_elf: <<state, max_end_vpn>>
RECURSIVE from_elf_segs(_, _, _, _, _)
from_elf_segs(st, a, segs, i, max_end_vpn) ==
    IF i > Len(segs) THEN <<st, max_end_vpn>>
    ELSE LET ph == segs[i]
             r == MapArea_map(st, a, ph.s, ph.e, "Framed", ph.perm, NoFile, 0)
             s1 == MapArea_copy_data(r[1], a, r[2], ph.off)
         IN  from_elf_segs(Push(s1, a, r[2]), a, segs, i + 1, r[2].e)

\* the loop over the program headers of MemorySet::from_elf_lazy
RECURSIVE from_elf_lazy_segs(_, _, _, _, _)
from_elf_lazy_segs(st, a, segs, i, max_end_vpn) ==
    IF i > Len(segs) THEN <<st, max_end_vpn>>
    ELSE LET ph == segs[i]
             r == MapArea_map(st, a, ph.s, ph.e, "FilePriv", ph.perm, ElfInode, ph.off)
         IN  from_elf_lazy_segs(Push(r[1], a, r[2]), a, segs, i + 1, r[2].e)

\* user_stack_bottom of from_elf / from_elf_lazy: one guard page above max_end_vpn
UserStackBottom(max_end_vpn) == max_end_vpn + 1

\* the user stack, the sbrk area and the trap-context area of from_elf / from_elf_lazy
from_elf_tail(st, a, max_end_vpn) ==
    LET bottom == UserStackBottom(max_end_vpn)
        top == bottom + StackPages
        r1 == MapArea_map(st, a, bottom, top, "Framed", RWU, NoFile, 0)
        s1 == Push(r1[1], a, r1[2])
        r2 == MapArea_map(s1, a, top, top, "Framed", RWU, NoFile, 0)
        s2 == Push(r2[1], a, r2[2])
        r3 == MapArea_map(s2, a, TRAP_CONTEXT_VPN, TRAMPOLINE_VPN, "Framed", {"R", "W"},
                          NoFile, 0)
        s3 == MapArea_load_all(r3[1], a, r3[2])
    IN  Push(s3, a, r3[2])

\* MemorySet::from_elf and MemorySet::from_elf_lazy
MemorySet_from_elf(st, a, img) ==
    LET s0 == MemorySet_map_trampoline(st, a)
        r == IF img.lazy THEN from_elf_lazy_segs(s0, a, img.segs, 1, 0)
                         ELSE from_elf_segs(s0, a, img.segs, 1, 0)
    IN  [from_elf_tail(r[1], a, r[2]) EXCEPT !.live = @ \cup {a}]

\* user_stack_top: the heap bottom handed to sbrk
HeapBottom(img) == UserStackBottom(img.segs[Len(img.segs)].e) + StackPages

\* the kernel before the first process is built
Boot ==
    [pt |-> [k \in Keys |-> EmptyPTE],
     areas |-> [a \in Spaces |-> <<>>],
     live |-> {},
     fmap |-> [k \in Keys |-> NoRec],
     filemap |-> [k \in Keys |-> NoPos],
     files |-> [pos \in FilePosSet |-> 0 - 1],
     mem |-> [f \in Frames |-> 0],
     used |-> {},
     disk |-> [bytes |-> [pos \in FilePosSet |-> FileBytes(pos)],
               size |-> [i \in Inodes |-> FilePageCount * PAGE_SIZE]],
     st |-> "ok",
     ret |-> 0]

\* ------------------------------------------------------------------ easy-fs
\* the vfs layer over one directory (the root, inode 0) and its files
DIRENT_SZ == 32
BLOCK_SZ == 512
Harts == {1, 2}
Names == {"", "a", "b"}
FileIds == 1 .. MaxInodes
Blocks == 1 .. MaxBlocks
RootId == 0

\* DirEntry::empty
NoEnt == [name |-> "", id |-> 0]
\* Option::None of the value an operation returns
NoneRet == <<0 - 1, 0 - 1>>

\* a hart that is in no inode operation
IdleHart ==
    [pc |-> "idle", op |-> "none", name |-> "", id |-> 0, ents |-> <<>>, i |-> 0,
     ret |-> NoneRet, list |-> <<>>, pre |-> <<>>]

\* the file system after mkfs: an empty root directory
FsBoot ==
    [lock |-> 0,
     slots |-> [i \in 0 .. MaxDirents - 1 |-> NoEnt],
     isize |-> [i \in {RootId} \cup FileIds |-> 0],
     iblocks |-> [i \in {RootId} \cup FileIds |-> <<>>],
     links |-> [i \in FileIds |-> 0],
     ibitmap |-> {RootId},
     dbitmap |-> {},
     dirty |-> FALSE,
     harts |-> [h \in Harts |-> IdleHart],
     ret |-> NoneRet]

\* block_cache_sync_all: every cached block, the bitmaps included, is written back
block_cache_sync_all(f) == [f EXCEPT !.dirty = FALSE]

\* a root directory one entry short of a full block: "f01" was created and the other
\* names were linked to its inode
OldNames ==
    <<"f01", "f02", "f03", "f04", "f05", "f06", "f07", "f08", "f09", "f10", "f11", "f12",
      "f13", "f14", "f15">>
DirFill == Len(OldNames)
FsFull ==
    [FsBoot EXCEPT
        !.slots = [i \in 0 .. DirFill + MaxDirents - 1 |->
                     IF i < DirFill THEN [name |-> OldNames[i + 1], id |-> 1] ELSE NoEnt],
        !.isize = [@ EXCEPT ![RootId] = DirFill * DIRENT_SZ],
        !.iblocks = [@ EXCEPT ![RootId] = <<1>>],
        !.links = [@ EXCEPT ![1] = DirFill],
        !.ibitmap = {RootId, 1},
        !.dbitmap = {1}]

\* DiskInode::total_blocks, for sizes that need no indirect block
total_blocks(size) == (size + BLOCK_SZ - 1) \div BLOCK_SZ

\* DiskInode::dir_entries: the entries within the size of the directory
dir_entries(f) == [i \in 1 .. f.isize[RootId] \div DIRENT_SZ |-> f.slots[i - 1]]

\* a find_inode_id that reads the first entry only
find_inode_id_first(f, name) ==
    IF f.isize[RootId] \div DIRENT_SZ > 0 /\ f.slots[0].name = name
    THEN f.slots[0].id ELSE 0 - 1

\* Inode::find_inode_id: the inode id of the first entry called name, -1 for None
find_inode_id(f, name) ==
    LET hits == {i \in 0 .. f.isize[RootId] \div DIRENT_SZ - 1 : f.slots[i].name = name} IN
    IF hits = {} THEN 0 - 1 ELSE f.slots[Min(hits)].id

\* Inode::ls
ls(f) == [i \in 1 .. f.isize[RootId] \div DIRENT_SZ |-> f.slots[i - 1].name]

\* EasyFileSystem::alloc_data, n times: the lowest free blocks, in order
RECURSIVE alloc_data(_, _)
alloc_data(free, n) ==
    IF n = 0 THEN <<>> ELSE <<Min(free)>> \o alloc_data(free \ {Min(free)}, n - 1)

\* Inode::increase_size of inode id
increase_size(f, id, new_size) ==
    IF new_size < f.isize[id] THEN f
    ELSE LET v == alloc_data(Blocks \ f.dbitmap,
                             total_blocks(new_size) - total_blocks(f.isize[id])) IN
         [f EXCEPT !.isize[id] = new_size,
                   !.iblocks[id] = @ \o v,
                   !.dbitmap = @ \cup {v[j] : j \in 1 .. Len(v)},
                   !.dirty = @ \/ Len(v) > 0]

\* DiskInode::decrease_size of inode id, and fs.dealloc_data of the blocks it returns
decrease_size(f, id, new_size) ==
    LET keep == total_blocks(new_size)
        all == f.iblocks[id]
    IN  [f EXCEPT !.isize[id] = new_size,
                  !.iblocks[id] = SubSeq(all, 1, keep),
                  !.dbitmap = @ \ {all[j] : j \in keep + 1 .. Len(all)},
                  !.dirty = @ \/ keep < Len(all)]

\* the operation of hart h returns ret: the fs guard is dropped
Return(f, h, ret) ==
    [f EXCEPT !.lock = IF @ = h THEN 0 ELSE @,
              !.harts[h] = IdleHart,
              !.ret = ret]

\* Inode::create, one step of it
create_step(f, h) ==
    LET me == f.harts[h]
        file_count == f.isize[RootId] \div DIRENT_SZ
    IN  CASE me.pc = "check" ->
               IF find_inode_id(f, me.name) # 0 - 1 THEN Return(f, h, NoneRet)
               ELSE LET new_inode_id == Min(FileIds \ f.ibitmap) IN
                    [f EXCEPT !.ibitmap = @ \cup {new_inode_id},
                              !.dirty = TRUE,
                              !.isize[new_inode_id] = 0,
                              !.iblocks[new_inode_id] = <<>>,
                              !.links[new_inode_id] = 1,
                              !.harts[h].id = new_inode_id,
                              !.harts[h].pc = "grow"]
          [] me.pc = "grow" ->
               [increase_size(f, RootId, (file_count + 1) * DIRENT_SZ)
                  EXCEPT !.harts[h].i = file_count, !.harts[h].pc = "write"]
          [] OTHER ->
               Return(block_cache_sync_all(
                          [f EXCEPT !.slots[me.i] = [name |-> me.name, id |-> me.id]]),
                      h, <<me.id, 0>>)

\* Inode::link with Inode::add_entry, one step of it
link_step(f, h) ==
    LET me == f.harts[h]
        file_count == f.isize[RootId] \div DIRENT_SZ
    IN  CASE me.pc = "check" ->
               IF find_inode_id(f, me.name) # 0 - 1 THEN Return(f, h, NoneRet)
               ELSE [f EXCEPT !.harts[h].pc = "grow"]
          [] me.pc = "grow" ->
               [increase_size(f, RootId, (file_count + 1) * DIRENT_SZ)
                  EXCEPT !.harts[h].i = file_count, !.harts[h].pc = "write"]
          [] me.pc = "write" ->
               [f EXCEPT !.slots[me.i] = [name |-> me.name, id |-> me.id],
                         !.harts[h].pc = "inc"]
          [] OTHER ->
               Return([f EXCEPT !.links[me.id] = @ + 1], h, <<me.id, 0>>)

\* Inode::clear_internal of a file inode
clear_internal(f, id) == block_cache_sync_all(decrease_size(f, id, 0))

\* a rewrite that puts the i-th remaining entry one slot too far
rewrite_entry_shifted(f, i, x) == [f EXCEPT !.slots[i + 1] = x]

\* remove_entry_by_name: the i-th remaining entry x is written at offset i * DIRENT_SZ
rewrite_entry(f, i, x) == [f EXCEPT !.slots[(i * DIRENT_SZ) \div DIRENT_SZ] = x]

\* an unlink that frees the inode when one link is left after it
unlink_frees_early(links) == links = 2

\* Inode::unlink: the inode and its data are freed when the previous link count is 1
unlink_frees(links) == links = 1

\* Inode::unlink with Inode::remove_entry_by_name, one step of it
unlink_step(f, h) ==
    LET me == f.harts[h]
        entries == dir_entries(f)
        hits == {j \in 1 .. Len(entries) : entries[j].name = me.name}
    IN  CASE me.pc = "check" ->
               IF hits = {} THEN Return(f, h, NoneRet)
               ELSE LET idx == Min(hits)
                        rest == SubSeq(entries, 1, idx - 1)
                                \o SubSeq(entries, idx + 1, Len(entries))
                    IN  [decrease_size(f, RootId, Len(rest) * DIRENT_SZ)
                           EXCEPT !.harts[h].id = entries[idx].id,
                                  !.harts[h].ents = rest,
                                  !.harts[h].i = 0,
                                  !.harts[h].pc = IF rest = <<>> THEN "dec" ELSE "rewrite"]
          [] me.pc = "rewrite" ->
               [rewrite_entry(f, me.i, me.ents[me.i + 1])
                  EXCEPT !.harts[h].i = me.i + 1,
                         !.harts[h].pc = IF me.i + 1 = Len(me.ents) THEN "dec" ELSE "rewrite"]
          [] OTHER ->
               LET links == f.links[me.id]
                   f1 == [f EXCEPT !.links[me.id] = links - 1]
                   f2 == IF unlink_frees(links)
                         THEN clear_internal([f1 EXCEPT !.ibitmap = @ \ {me.id},
                                                        !.dirty = TRUE], me.id)
                         ELSE f1
               IN  Return(f2, h, <<me.id, links>>)

\* Inode::ls, one step of it: the names are read, then the guard is dropped
ls_step(f, h) ==
    IF f.harts[h].pc = "check"
    THEN [f EXCEPT !.harts[h].list = ls(f), !.harts[h].pc = "done"]
    ELSE Return(f, h, <<Len(f.harts[h].list), 0>>)

\* Inode::write_at of one block at offset 0 of a file inode
write_step(f, h) ==
    Return(block_cache_sync_all(increase_size(f, f.harts[h].id, BLOCK_SZ)),
           h, <<BLOCK_SZ, 0>>)

FsOps == {"create", "link", "unlink", "ls", "write"}

\* one step of the operation hart h is in
Step(f, h) ==
    CASE f.harts[h].op = "create" -> create_step(f, h)
      [] f.harts[h].op = "link" -> link_step(f, h)
      [] f.harts[h].op = "unlink" -> unlink_step(f, h)
      [] f.harts[h].op = "ls" -> ls_step(f, h)
      [] OTHER -> write_step(f, h)

\* self.fs.lock() at the entry of every operation: it returns when the lock is free
fs_lock(f, op) == f.lock = 0

\* the entry of an operation on hart h: the lock is taken
Enter(f, h, op, name, id) ==
    [f EXCEPT !.lock = IF @ = 0 THEN h ELSE @,
              !.ret = NoneRet,
              !.harts[h] = [pc |-> "check", op |-> op, name |-> name, id |-> id,
                            ents |-> <<>>, i |-> 0, ret |-> NoneRet, list |-> <<>>,
                            pre |-> ls(f)]]

\* the operation hart h is in, run to its return with no other hart moving
RECURSIVE Finish(_, _)
Finish(f, h) == IF f.harts[h].pc = "idle" THEN f ELSE Finish(Step(f, h), h)

\* a whole operation, from its entry to its return
Whole(f, h, op, name, id) == Finish(Enter(f, h, op, name, id), h)

\* ------------------------------------------------------------- hart start
\* the harts the device tree lists; BOOT_HART runs init_harts
Cpus == 0 .. MaxCpus
BOOT_HART == 0
Secondary == Cpus \ {BOOT_HART}
NoHart == 0 - 1

\* the machine when init_harts is entered: the secondary harts are stopped. cur is the
\* hart start_hart was last called for, ctx tells whether the HartInitContext of that
\* call is on the stack of the boot hart, sig is its field sig, stale is set when a hart
\* reads or writes a HartInitContext that was released
HartBoot ==
    [pc |-> "init_hart", cur |-> NoHart, ctx |-> FALSE, sig |-> 0,
     hpc |-> [h \in Secondary |-> "off"], stale |-> FALSE]

\* a start_hart whose loop exchanges 0 for 0, so that it does not wait for the hart
start_hart_wait_zero(sig) == sig = 0

\* start_hart: sig.compare_exchange(1, 0) succeeds
start_hart_wait(sig) == sig = 1

\* hart_main: sig.compare_exchange(0, 1) succeeds
hart_main_wait(sig) == sig = 0

\* get_harts().filter(|x| *x != boot_hart): the harts for_each has not reached yet
HartsLeft(b) == {h \in Secondary : h > b.cur}

\* --------------------------------------------------------------- actions
\* ------------------------------------------- semaphores, deadlock detection
\* one process with deadlock detection enabled; its threads run on different harts.
\* Thread t is row t + 1 of alloc and q, semaphore id is entry id + 1 of locks and avail.
MaxThreads == 2
MaxSems == 2
MaxRes == 1
Tids == 0 .. (MaxThreads - 1)
SemIds == 0 .. (MaxSems - 1)
DEAD == 57005

\* DeadlockDetection::new with no lock, no thread in a system call
SemBoot ==
    [locks |-> <<>>, alloc |-> <<>>, q |-> <<>>, avail |-> <<>>,
     pc |-> [t \in Tids |-> "user"], arg |-> [t \in Tids |-> 0], st |-> "ok", ret |-> 0]

SemHalt(d, why) == IF d.st = "ok" THEN [d EXCEPT !.st = why] ELSE d

\* Semaphore::new, Semaphore::up and Semaphore::down: a counter and a FIFO of waiters
Semaphore_new(res_count) == [count |-> res_count, wait_queue |-> <<>>]

\* up: the counter grows; a non-positive counter afterwards wakes the first waiter, whose
\* down then returns
Semaphore_up(d, id) ==
    LET s == d.locks[id + 1] IN
    IF s.count + 1 <= 0 /\ Len(s.wait_queue) > 0
    THEN [d EXCEPT !.locks[id + 1] = [count |-> s.count + 1, wait_queue |-> Tail(s.wait_queue)],
                   !.pc[Head(s.wait_queue)] = "down_post"]
    ELSE [d EXCEPT !.locks[id + 1].count = s.count + 1]

\* down by thread t: the counter shrinks; a negative counter afterwards queues and blocks t
Semaphore_down(d, t, id) ==
    LET s == d.locks[id + 1] IN
    IF s.count - 1 < 0
    THEN [d EXCEPT !.locks[id + 1] = [count |-> s.count - 1, wait_queue |-> Append(s.wait_queue, t)],
                   !.pc[t] = "blocked"]
    ELSE [d EXCEPT !.locks[id + 1].count = s.count - 1, !.pc[t] = "down_post"]

all_zero(v) == \A i \in 1 .. Len(v) : v[i] = 0

\* le_vec asserts that the lengths agree
le_vec_ok(v1, v2) == Len(v1) = Len(v2)
le_vec(v1, v2) == \A i \in 1 .. Len(v1) : v1[i] <= v2[i]

add_to(dst, src) == [i \in 1 .. Len(dst) |-> dst[i] + src[i]]

\* v.push(0) while v.len() < n
PadZero(v, n) == IF Len(v) < n THEN v \o [i \in 1 .. (n - Len(v)) |-> 0] ELSE v

\* the loops of prepare_lock_state on one of the two matrices
PadRows(m, num_tid, num_lock) ==
    LET m1 == IF Len(m) < num_tid THEN m \o [i \in 1 .. (num_tid - Len(m)) |-> <<>>] ELSE m IN
    [i \in 1 .. Len(m1) |-> IF i <= num_tid THEN PadZero(m1[i], num_lock) ELSE m1[i]]

prepare_lock_state(d, num_tid, num_lock) ==
    [d EXCEPT !.alloc = PadRows(@, num_tid, num_lock), !.q = PadRows(@, num_tid, num_lock)]

\* usize subtraction
Dec(x) == IF x > 0 THEN x - 1 ELSE 0 - 1

pre_wait(d, tid, lock_id) == [d EXCEPT !.q[tid + 1][lock_id + 1] = @ + 1]

post_wait_succ(d, tid, lock_id) ==
    IF ~(d.avail[lock_id + 1] > 0) THEN SemHalt(d, "assert post_wait_succ")
    ELSE [d EXCEPT !.q[tid + 1][lock_id + 1] = Dec(@),
                   !.avail[lock_id + 1] = Dec(@),
                   !.alloc[tid + 1][lock_id + 1] = @ + 1]

pre_release(d, tid, lock_id) ==
    LET d1 == prepare_lock_state(d, tid + 1, lock_id + 1) IN
    IF ~(d1.alloc[tid + 1][lock_id + 1] > 0) THEN SemHalt(d1, "assert pre_release")
    ELSE d1

post_release(d, tid, lock_id) ==
    [d EXCEPT !.avail[lock_id + 1] = @ + 1, !.alloc[tid + 1][lock_id + 1] = Dec(@)]

\* the first thread (0-based, -1 when there is none) the scan of has_deadlock finishes;
\* le_vec is evaluated, with its assertion, for every thread the scan visits
RECURSIVE FirstFound(_, _, _, _)
FirstFound(d, finish, W, i) ==
    IF i > Len(d.alloc) THEN [found |-> 0 - 1, ok |-> TRUE]
    ELSE IF ~le_vec_ok(d.q[i], W) THEN [found |-> 0 - 1, ok |-> FALSE]
    ELSE IF ~finish[i] /\ le_vec(d.q[i], W) THEN [found |-> i - 1, ok |-> TRUE]
    ELSE FirstFound(d, finish, W, i + 1)

\* the loop of has_deadlock; the result is the finish vector, <<>> after a failed assertion
RECURSIVE DetectLoop(_, _, _)
DetectLoop(d, finish, W) ==
    LET r == FirstFound(d, finish, W, 1) IN
    IF ~r.ok THEN <<>>
    ELSE IF r.found < 0 THEN <<finish>>
    ELSE IF ~(Len(W) = Len(d.alloc[r.found + 1])) THEN <<>>
    ELSE DetectLoop(d, [finish EXCEPT ![r.found + 1] = TRUE],
                    add_to(W, d.alloc[r.found + 1]))

\* DeadlockDetection::has_deadlock: the state it leaves and its result
has_deadlock(d) ==
    LET d1 == prepare_lock_state(d, Len(d.alloc), Len(d.locks))
        finish == [i \in 1 .. Len(d1.alloc) |-> all_zero(d1.alloc[i])]
        fin == DetectLoop(d1, finish, d1.avail)
    IN IF fin = <<>> THEN [d |-> SemHalt(d1, "assert le_vec"), deadlock |-> FALSE]
       ELSE [d |-> d1, deadlock |-> ~(\A i \in 1 .. Len(finish) : fin[1][i])]

\* a detection that takes the threads holding a lock for unfinished for good
has_deadlock_if_wait_for_noscan(d, tid, lock_id) ==
    LET d1 == prepare_lock_state(d, tid + 1, lock_id + 1)
        d2 == prepare_lock_state(d1, Len(d1.alloc), Len(d1.locks))
    IN [d |-> d2, deadlock |-> ~(\A i \in 1 .. Len(d2.alloc) : all_zero(d2.alloc[i]))]

\* DeadlockDetection::has_deadlock_if_wait_for
has_deadlock_if_wait_for(d, tid, lock_id) ==
    LET d1 == prepare_lock_state(d, tid + 1, lock_id + 1)
        d2 == [d1 EXCEPT !.q[tid + 1][lock_id + 1] = @ + 1]
        r == has_deadlock(d2)
    IN [d |-> IF r.d.st = "ok" THEN [r.d EXCEPT !.q[tid + 1][lock_id + 1] = Dec(@)] ELSE r.d,
        deadlock |-> r.deadlock]

\* sys_semaphore_create by thread tid: the first empty slot or a new one (no slot is
\* ever emptied, so it is a new one)
sys_semaphore_create(d, tid, res_count) ==
    IF d.st # "ok" THEN d
    ELSE LET d1 == [d EXCEPT !.locks = Append(@, Semaphore_new(res_count))]
             id == Len(d1.locks) - 1
             d2 == prepare_lock_state(d1, tid + 1, id + 1)
         IN [d2 EXCEPT !.avail = Append(@, res_count), !.ret = id]

\* sys_semaphore_up, first critical section: pre_release
sys_semaphore_up_pre(d, tid, sem_id) ==
    IF d.st # "ok" THEN d
    ELSE IF sem_id >= Len(d.locks) THEN SemHalt(d, "index")
    ELSE LET d1 == pre_release(d, tid, sem_id) IN
         IF d1.st # "ok" THEN d1
         ELSE [d1 EXCEPT !.pc[tid] = "up_sem", !.arg[tid] = sem_id]

\* sys_semaphore_up, outside the critical sections: sem.up()
sys_semaphore_up_sem(d, tid) ==
    IF d.st # "ok" THEN d
    ELSE [Semaphore_up(d, d.arg[tid]) EXCEPT !.pc[tid] = "up_post"]

\* sys_semaphore_up, second critical section: post_release, then return 0
sys_semaphore_up_post(d, tid) ==
    IF d.st # "ok" THEN d
    ELSE [post_release(d, tid, d.arg[tid]) EXCEPT !.pc[tid] = "user", !.arg[tid] = 0, !.ret = 0]

\* sys_semaphore_down, first critical section: prepare_lock_state, the detection, pre_wait
sys_semaphore_down_pre(d, tid, sem_id) ==
    IF d.st # "ok" THEN d
    ELSE IF sem_id >= Len(d.locks) THEN SemHalt(d, "index")
    ELSE LET d1 == prepare_lock_state(d, tid + 1, sem_id + 1)
             r == has_deadlock_if_wait_for(d1, tid, sem_id)
         IN IF r.d.st # "ok" THEN r.d
            ELSE IF r.deadlock THEN [r.d EXCEPT !.ret = 0 - DEAD]
            ELSE [pre_wait(r.d, tid, sem_id) EXCEPT !.pc[tid] = "down_sem", !.arg[tid] = sem_id]

\* sys_semaphore_down, outside the critical sections: sem.down()
sys_semaphore_down_sem(d, tid) ==
    IF d.st # "ok" THEN d
    ELSE Semaphore_down(d, tid, d.arg[tid])

\* sys_semaphore_down after down has returned true: post_wait_succ, then return 0
sys_semaphore_down_post(d, tid) ==
    IF d.st # "ok" THEN d
    ELSE LET d1 == post_wait_succ(d, tid, d.arg[tid]) IN
         IF d1.st # "ok" THEN d1
         ELSE [d1 EXCEPT !.pc[tid] = "user", !.arg[tid] = 0, !.ret = 0]

VARIABLES image, parent, fs, boot, sem

allvars == <<vars, image, parent, fs, boot, sem>>

Commit(r) ==
    /\ pt' = r.pt
    /\ areas' = r.areas
    /\ live' = r.live
    /\ fmap' = r.fmap
    /\ filemap' = r.filemap
    /\ files' = r.files
    /\ mem' = r.mem
    /\ used' = r.used
    /\ disk' = r.disk
    /\ halt' = r.st

\* a result the bounds of the model cut off (no frame left, file page out of range)
Cut(r) == r.st \in {"oom", "range"}

NoTouch == [a \in Spaces |-> {}]
\* the vpns vs of address space a are written or remapped: a and its children diverge
Touch(a, vs) ==
    [c \in Spaces |-> IF parent[c] # 0 /\ (c = a \/ parent[c] = a) THEN touched[c] \cup vs
                                                                    ELSE touched[c]]

InitMem(imgs) ==
    /\ image \in imgs
    /\ LET r == MemorySet_from_elf(Boot, 1, image) IN
        /\ pt = r.pt
        /\ areas = r.areas
        /\ live = r.live
        /\ fmap = r.fmap
        /\ filemap = r.filemap
        /\ files = r.files
        /\ mem = r.mem
        /\ used = r.used
        /\ disk = r.disk
        /\ halt = r.st
    /\ touched = NoTouch
    /\ parent = [a \in Spaces |-> 0]
    /\ last = 0
    /\ boot = HartBoot
    /\ sem = SemBoot

\* the kernel after the first process is built, on a file system fresh from mkfs
InitWith(imgs) == InitMem(imgs) /\ fs = FsBoot

PermSet == {RU, RWU}

\* sys_mmap -> MemorySet::mmap over the pages [s, e)
Mmap(a, s, e, perm) ==
    /\ halt = "ok" /\ a \in live /\ s <= e
    /\ Len(areas[a]) < MaxAreas
    /\ \E r \in {MemorySet_mmap(Cur, a, s, e, perm)} :
        /\ ~Cut(r)
        /\ Commit(r)
        /\ touched' = IF r.ret = 0 THEN Touch(a, RangeSet(s, e)) ELSE touched
        /\ last' = r.ret
    /\ UNCHANGED <<image, parent, fs, boot, sem>>

\* sys_munmap -> MemorySet::munmap over the pages [s, e)
Munmap(a, s, e) ==
    /\ halt = "ok" /\ a \in live /\ s <= e
    /\ \E r \in {MemorySet_munmap(Cur, a, s, e)} :
        /\ ~Cut(r)
        /\ Commit(r)
        /\ touched' = IF r.ret = 0 THEN Touch(a, RangeSet(s, e)) ELSE touched
        /\ last' = r.ret
    /\ UNCHANGED <<image, parent, fs, boot, sem>>

\* the access of kind k to vpn traps: the entry is invalid or does not permit it
KindBit(kind) == CASE kind = "Load" -> "R" [] kind = "Store" -> "W" [] OTHER -> "X"
Traps(a, vpn, kind) ==
    LET p == pt[<<a, vpn>>] IN
    ~PTEValid(p) \/ "U" \notin p.flags \/ KindBit(kind) \notin p.flags

\* trap handler -> MemorySet::page_fault
PageFault(a, vpn, kind) ==
    /\ halt = "ok" /\ a \in live
    /\ Traps(a, vpn, kind)
    /\ \E r \in {MemorySet_page_fault(Cur, a, vpn, kind)} :
        /\ ~Cut(r)
        /\ Commit(r)
        /\ last' = r.ret
    /\ UNCHANGED <<image, parent, fs, boot, sem, touched>>

\* a user store that does not trap: the bytes of the page become the writer's value
UserWrite(a, vpn) ==
    /\ halt = "ok" /\ a \in live
    /\ ~Traps(a, vpn, "Store")
    /\ pt[<<a, vpn>>].ppn \in Frames
    /\ mem' = [mem EXCEPT ![pt[<<a, vpn>>].ppn] = a]
    /\ touched' = Touch(a, {vpn})
    /\ last' = 0
    /\ UNCHANGED <<pt, areas, live, fmap, filemap, files, used, halt, disk, image, parent, fs, boot, sem>>

\* sys_fork -> MemorySet::fork
Fork(a) ==
    /\ halt = "ok" /\ a \in live /\ live # Spaces
    /\ \E c \in {Min(Spaces \ live)} :
       \E r \in {MemorySet_fork(Cur, a, c)} :
        /\ ~Cut(r)
        /\ Commit(r)
        /\ parent' = [parent EXCEPT ![c] = a]
        /\ touched' = [touched EXCEPT ![c] = {}]
        /\ last' = 0
    /\ UNCHANGED <<image, fs, boot, sem>>

\* MemorySet::cown, called for the page of vpn
Cown(a, vpn) ==
    /\ halt = "ok" /\ a \in live
    /\ \E r \in {MemorySet_cown(Cur, a, vpn)} :
        /\ ~Cut(r)
        /\ Commit(r)
        /\ last' = 0
    /\ UNCHANGED <<image, parent, fs, boot, sem, touched>>

\* the end of the area sbrk works on, 0 - 1 when no area starts at the heap bottom
HeapEnd(a) ==
    LET i == FindAreaStartingAt(areas[a], HeapBottom(image)) IN
    IF i = 0 THEN 0 - 1 ELSE areas[a][i].e

\* sys_sbrk with a size >= 0 -> MemorySet::append_to
SbrkGrow(a, new_end) ==
    /\ halt = "ok" /\ a \in live
    /\ HeapEnd(a) <= new_end /\ HeapBottom(image) <= new_end
    /\ \E r \in {MemorySet_append_to(Cur, a, HeapBottom(image), new_end)} :
        /\ ~Cut(r)
        /\ Commit(r)
        /\ touched' = Touch(a, RangeSet(HeapEnd(a), new_end))
        /\ last' = 0
    /\ UNCHANGED <<image, parent, fs, boot, sem>>

\* sys_sbrk with a size < 0 -> MemorySet::shrink_to
SbrkShrink(a, new_end) ==
    /\ halt = "ok" /\ a \in live
    /\ HeapBottom(image) <= new_end
    /\ \E r \in {MemorySet_shrink_to(Cur, a, HeapBottom(image), new_end)} :
        /\ ~Cut(r)
        /\ Commit(r)
        /\ touched' = Touch(a, RangeSet(new_end, HeapEnd(a)))
        /\ last' = 0
    /\ UNCHANGED <<image, parent, fs, boot, sem>>

\* exit of the process -> MemorySet::recycle_data_pages; the process takes no step after it
Exit(a) ==
    /\ halt = "ok" /\ a \in live
    /\ \E r \in {MemorySet_recycle_data_pages(Cur, a)} :
        /\ ~Cut(r)
        /\ Commit([r EXCEPT !.live = @ \ {a}])
        /\ last' = 0
    /\ UNCHANGED <<image, parent, fs, boot, sem, touched>>

\* MFileManager::slim
Slim ==
    /\ halt = "ok"
    /\ \E r \in {MFile_slim(Cur)} :
        /\ ~Cut(r)
        /\ Commit(r)
        /\ last' = 0
    /\ UNCHANGED <<image, parent, fs, boot, sem, touched>>

UserVpns == 0 .. UserPages
Ranges == {r \in VPNS \X (0 .. TRAMPOLINE_VPN + 1) : r[1] <= r[2]}
\* the ranges of at least one page
PageRuns == {r \in Ranges : r[1] < r[2]}

\* one process: every mmap (read-only), munmap and sbrk request, load and store faults
NextMap ==
    \/ \E a \in Spaces, r \in PageRuns : Mmap(a, r[1], r[2], RU)
    \/ \E a \in Spaces, r \in Ranges : Munmap(a, r[1], r[2])
    \/ \E a \in Spaces, vpn \in VPNS, kind \in {"Load", "Store"} : PageFault(a, vpn, kind)
    \/ \E a \in Spaces, new_end \in UserVpns : SbrkGrow(a, new_end)
    \/ \E a \in Spaces, new_end \in UserVpns : SbrkShrink(a, new_end)

\* the pages a process of a fork family unmaps: the ELF page and the stack page
ForkUnmaps == {r \in PageRuns : r[2] = r[1] + 1 /\ r[1] \in {0, UserStackBottom(1)}}

\* processes that fork: faults, stores, cown, and munmap of one page
Next ==
    \/ \E a \in Spaces : Fork(a)
    \/ \E a \in Spaces, vpn \in VPNS, kind \in FaultTypes : PageFault(a, vpn, kind)
    \/ \E a \in Spaces, vpn \in VPNS : UserWrite(a, vpn)
    \/ \E a \in Spaces, vpn \in VPNS : Cown(a, vpn)
    \/ \E a \in Spaces, r \in ForkUnmaps : Munmap(a, r[1], r[2])

\* the first process is built by from_elf
Init == InitWith({img \in Images : ~img.lazy})
\* the first process is built by from_elf_lazy
InitLazy == InitWith({img \in Images : img.lazy})

Spec == Init /\ [][Next]_allvars
SpecMap == Init /\ [][NextMap]_allvars
SpecLazy == InitLazy /\ [][Next]_allvars

\* one process on a lazily loaded image: mmap, munmap, faults, stores, exit, and the
\* slim of the file tracker
NextFile ==
    \/ \E a \in Spaces, r \in PageRuns : Mmap(a, r[1], r[2], RU)
    \/ \E a \in Spaces, r \in PageRuns : Munmap(a, r[1], r[2])
    \/ \E a \in Spaces, vpn \in VPNS, kind \in {"Load", "Store"} : PageFault(a, vpn, kind)
    \/ \E a \in Spaces, vpn \in VPNS : UserWrite(a, vpn)
    \/ \E a \in Spaces : Exit(a)
    \/ Slim

SpecFile == InitLazy /\ [][NextFile]_allvars

\* the ranges from the heap bottom upwards: the free page below the trap context, the
\* trap context and the trampoline
TopRanges == {r \in PageRuns : r[1] >= UserStackBottom(1) + StackPages}

\* processes of either kind of image that fork, fault anywhere, and mmap and munmap
\* ranges at the top of the address space
NextTop ==
    \/ \E a \in Spaces : Fork(a)
    \/ \E a \in Spaces, r \in TopRanges, perm \in PermSet : Mmap(a, r[1], r[2], perm)
    \/ \E a \in Spaces, r \in TopRanges : Munmap(a, r[1], r[2])
    \/ \E a \in Spaces, vpn \in VPNS, kind \in FaultTypes : PageFault(a, vpn, kind)

\* the first process is built by from_elf or by from_elf_lazy
InitAny == InitWith(Images)

SpecTop == InitAny /\ [][NextTop]_allvars

\* hart h enters an inode operation on the root directory
Call(h, op, name, id) ==
    /\ fs.harts[h].pc = "idle"
    /\ fs_lock(fs, op)
    /\ op = "create" => find_inode_id(fs, name) # 0 - 1 \/ FileIds \ fs.ibitmap # {}
    /\ op \in {"link", "write"} => id \in fs.ibitmap
    /\ op \in {"create", "link", "unlink"} \/ name = ""
    /\ op \in {"link", "write"} \/ id = 1
    /\ fs' = Enter(fs, h, op, name, id)
    /\ UNCHANGED <<vars, image, parent, boot, sem>>

\* hart h takes the next step of its operation
Run(h) ==
    /\ fs.harts[h].pc # "idle"
    /\ fs' = Step(fs, h)
    /\ UNCHANGED <<vars, image, parent, boot, sem>>

\* two harts that call create, link, unlink, ls and write_at on one directory
NextFs ==
    \/ \E h \in Harts, op \in FsOps, name \in Names, id \in FileIds : Call(h, op, name, id)
    \/ \E h \in Harts : Run(h)

SpecFs == Init /\ [][NextFs]_allvars

\* one hart that calls create, link, unlink, ls and write_at on a directory that is at
\* the end of its first block
NextDir ==
    \/ \E op \in FsOps, name \in Names, id \in FileIds : Call(1, op, name, id)
    \/ Run(1)

InitDir == InitMem({img \in Images : ~img.lazy}) /\ fs = FsFull

SpecDir == InitDir /\ [][NextDir]_allvars

\* the trap entry saves the registers of process a in its trap-context page
TrapSave(a) ==
    /\ halt = "ok" /\ a \in live
    /\ PTEValid(pt[<<a, TRAP_CONTEXT_VPN>>])
    /\ pt[<<a, TRAP_CONTEXT_VPN>>].ppn \in Frames
    /\ mem[pt[<<a, TRAP_CONTEXT_VPN>>].ppn] # a
    /\ mem' = [mem EXCEPT ![pt[<<a, TRAP_CONTEXT_VPN>>].ppn] = a]
    /\ last' = 0
    /\ UNCHANGED <<pt, areas, live, fmap, filemap, files, used, halt, disk, touched,
                   image, parent, fs, boot, sem>>

\* processes that trap and fork: the trap context is saved, pages fault, are written
\* and owned
NextTrap ==
    \/ \E a \in Spaces : TrapSave(a)
    \/ \E a \in Spaces : Fork(a)
    \/ \E a \in Spaces, vpn \in VPNS, kind \in FaultTypes : PageFault(a, vpn, kind)
    \/ \E a \in Spaces, vpn \in VPNS : UserWrite(a, vpn)
    \/ \E a \in Spaces, vpn \in VPNS : Cown(a, vpn)

SpecTrap == Init /\ [][NextTrap]_allvars

\* ELF images with two Load segments, in ascending and in descending order of address
\* in the program-header table
ElfImages ==
    {[lazy |-> l, segs |-> sg] :
        l \in BOOLEAN,
        sg \in {<<Seg(0, 1, RWU, PAGE_SIZE), Seg(1, 2, RU, 2 * PAGE_SIZE)>>,
                <<Seg(1, 2, RU, 2 * PAGE_SIZE), Seg(0, 1, RWU, PAGE_SIZE)>>}}

\* the first process is built from one of the two-segment images
InitElf == InitWith(ElfImages)

\* a process on a two-segment image: faults and stores
NextElf ==
    \/ \E a \in Spaces, vpn \in VPNS, kind \in FaultTypes : PageFault(a, vpn, kind)
    \/ \E a \in Spaces, vpn \in VPNS : UserWrite(a, vpn)

SpecElf == InitElf /\ [][NextElf]_allvars

\* ------------------------------------------------------- hart start, steps
\* init_harts on the boot hart, one step of it; start_hart is inlined: the context is
\* built, sbi::hart_start is called, the loop waits for sig, the stack is forgotten and
\* the context goes out of scope at the return
BootStep ==
    /\ \/ /\ boot.pc = "init_hart"
          /\ boot' = [boot EXCEPT !.pc = "for_each"]
       \/ /\ boot.pc = "for_each"
          /\ boot' = IF HartsLeft(boot) = {} THEN [boot EXCEPT !.pc = "post_init"]
                     ELSE [boot EXCEPT !.pc = "hart_start", !.cur = Min(HartsLeft(boot)),
                                       !.ctx = TRUE, !.sig = 0]
       \/ /\ boot.pc = "hart_start"
          /\ boot' = [boot EXCEPT !.pc = "wait", !.hpc[boot.cur] = "_hart_start"]
       \/ /\ boot.pc = "wait"
          /\ start_hart_wait(boot.sig)
          /\ boot' = [boot EXCEPT !.pc = "forget", !.sig = 0]
       \/ /\ boot.pc = "forget"
          /\ boot' = [boot EXCEPT !.pc = "for_each", !.ctx = FALSE]
       \/ /\ boot.pc = "post_init"
          /\ boot' = [boot EXCEPT !.pc = "run_tasks"]
    /\ UNCHANGED <<vars, image, parent, fs, sem>>

\* the HartInitContext hart h was given is still on the stack of the boot hart
CtxLive(b, h) == b.ctx /\ b.cur = h

\* a secondary hart, one step of it: _hart_start loads sp and satp from the context and
\* calls hart_main, which exchanges sig and then runs init_hart and run_tasks. An access
\* to a released context has any outcome
HartStep(h) ==
    /\ \/ /\ boot.hpc[h] = "_hart_start"
          /\ IF CtxLive(boot, h)
             THEN boot' = [boot EXCEPT !.hpc[h] = "hart_main"]
             ELSE \E pc \in {"hart_main", "lost"} :
                      boot' = [boot EXCEPT !.hpc[h] = pc, !.stale = TRUE]
       \/ /\ boot.hpc[h] = "hart_main"
          /\ IF CtxLive(boot, h)
             THEN /\ hart_main_wait(boot.sig)
                  /\ boot' = [boot EXCEPT !.hpc[h] = "init_hart", !.sig = 1]
             ELSE \E pc \in {"hart_main", "init_hart"}, v \in {0, 1} :
                      boot' = [boot EXCEPT !.hpc[h] = pc, !.sig = v, !.stale = TRUE]
       \/ /\ boot.hpc[h] = "init_hart"
          /\ boot' = [boot EXCEPT !.hpc[h] = "run_tasks"]
    /\ UNCHANGED <<vars, image, parent, fs, sem>>

NextHart == BootStep \/ \E h \in Secondary : HartStep(h)

\* every hart keeps executing
SpecHart ==
    /\ Init /\ [][NextHart]_allvars
    /\ WF_allvars(BootStep)
    /\ \A h \in Secondary : WF_allvars(HartStep(h))

\* --------------------------------------------------- frame tracker, direct
\* the entries the frame tracker is driven on directly: the first segment page of the
\* first address space, and three entries that may borrow it
TrackKeys == {<<a, v>> : a \in Spaces, v \in {0, 1}}

\* MFrameHandle::share_cow: the untracked entry kb borrows the mapping of ko
TrackShare(ko, kb) ==
    /\ halt = "ok"
    /\ fmap[ko].t \in {"Ownd", "COW"}
    /\ fmap[kb] = NoRec /\ pt[kb] = EmptyPTE
    /\ \E r \in {MFrame_share_cow(Cur, ko, kb)} :
        /\ ~Cut(r)
        /\ Commit(r)
        /\ last' = 0
    /\ UNCHANGED <<image, parent, fs, boot, sem, touched>>

\* MFrameHandle::cown
TrackCown(k) ==
    /\ halt = "ok"
    /\ fmap[k].t \in {"Ownd", "COW"}
    /\ \E r \in {MFrame_cown(Cur, k)} :
        /\ ~Cut(r)
        /\ Commit(r)
        /\ last' = 0
    /\ UNCHANGED <<image, parent, fs, boot, sem, touched>>

\* MFrameHandle::drop
TrackUnmap(k) ==
    /\ halt = "ok"
    /\ fmap[k].t \in {"Ownd", "COW"}
    /\ k # <<1, 0>>
    /\ \E r \in {MFrame_unmap(Cur, k)} :
        /\ ~Cut(r)
        /\ Commit(r)
        /\ last' = 0
    /\ UNCHANGED <<image, parent, fs, boot, sem, touched>>

NextTrack ==
    \/ \E ko \in TrackKeys, kb \in TrackKeys : TrackShare(ko, kb)
    \/ \E k \in TrackKeys : TrackCown(k)
    \/ \E k \in TrackKeys : TrackUnmap(k)

SpecTrack == Init /\ [][NextTrack]_allvars

\* ---------------------------------------------------- file tracker, direct
\* MFileHandle::map: the untracked entry k is registered at a position of the file
FileMap(k, pos) ==
    /\ halt = "ok"
    /\ filemap[k] = NoPos /\ fmap[k] = NoRec /\ pt[k] = EmptyPTE
    /\ \E r \in {MFile_map(Cur, k, pos[1], pos[2])} :
        /\ ~Cut(r)
        /\ Commit(r)
        /\ last' = 0
    /\ UNCHANGED <<image, parent, fs, boot, sem, touched>>

\* MFileHandle::load
FileLoad(k, flags) ==
    /\ halt = "ok"
    /\ filemap[k] # NoPos
    /\ \E r \in {MFile_load(Cur, k, flags)} :
        /\ ~Cut(r)
        /\ Commit(r)
        /\ last' = 0
    /\ UNCHANGED <<image, parent, fs, boot, sem, touched>>

\* MFileHandle::drop
FileUnmap(k) ==
    /\ halt = "ok"
    /\ filemap[k] # NoPos
    /\ \E r \in {MFile_unmap(Cur, k)} :
        /\ ~Cut(r)
        /\ Commit(r)
        /\ last' = 0
    /\ UNCHANGED <<image, parent, fs, boot, sem, touched>>

\* MFileHandle::share_fully
FileShare(k, other) ==
    /\ halt = "ok"
    /\ filemap[k] # NoPos
    /\ filemap[other] = NoPos /\ fmap[other] = NoRec /\ pt[other] = EmptyPTE
    /\ \E r \in {MFile_share_fully(Cur, k, other)} :
        /\ ~Cut(r)
        /\ Commit(r)
        /\ last' = 0
    /\ UNCHANGED <<image, parent, fs, boot, sem, touched>>

\* the entries the file tracker is driven on: the segment page of the first address
\* space, registered by from_elf_lazy, and two entries of the second
MFileKeys == {<<1, 0>>, <<2, 0>>, <<2, 1>>}

\* the file tracker driven through its handles on these entries and every page of the file
NextMFile ==
    \/ \E k \in MFileKeys, pos \in FilePosSet : FileMap(k, pos)
    \/ \E k \in MFileKeys : FileLoad(k, RWU \cup {"V"})
    \/ \E k \in MFileKeys : FileUnmap(k)
    \/ \E k \in MFileKeys, other \in MFileKeys : FileShare(k, other)
    \/ Slim

SpecMFile == InitLazy /\ [][NextMFile]_allvars

\* ------------------------------------------------------------ system calls
\* VirtAddr::floor and VirtAddr::ceil
VaFloor(va) == va \div PAGE_SIZE
VaCeil(va) == (va + PAGE_SIZE - 1) \div PAGE_SIZE

\* MapPermission::from_bits((prot as u8) << 1) | MapPermission::U
ProtPerm(prot) ==
    (IF prot % 2 = 1 THEN {"R"} ELSE {})
    \cup (IF (prot \div 2) % 2 = 1 THEN {"W"} ELSE {})
    \cup (IF (prot \div 4) % 2 = 1 THEN {"X"} ELSE {})
    \cup {"U"}

\* sys_mmap
sys_mmap(st, a, start, len, prot) ==
    IF start % PAGE_SIZE # 0 THEN [st EXCEPT !.ret = 0 - 1]
    ELSE IF prot \div 8 # 0 \/ prot % 8 = 0 THEN [st EXCEPT !.ret = 0 - 1]
    ELSE MemorySet_mmap(st, a, VaFloor(start), VaCeil(start + len), ProtPerm(prot))

\* sys_munmap
sys_munmap(st, a, start, len) ==
    IF start % PAGE_SIZE # 0 THEN [st EXCEPT !.ret = 0 - 1]
    ELSE MemorySet_munmap(st, a, VaFloor(start), VaCeil(start + len))

SysMmap(a, start, len, prot) ==
    /\ halt = "ok" /\ a \in live
    /\ Len(areas[a]) < MaxAreas
    /\ \E r \in {sys_mmap(Cur, a, start, len, prot)} :
        /\ ~Cut(r)
        /\ Commit(r)
        /\ last' = r.ret
    /\ UNCHANGED <<image, parent, fs, boot, sem, touched>>

SysMunmap(a, start, len) ==
    /\ halt = "ok" /\ a \in live
    /\ \E r \in {sys_munmap(Cur, a, start, len)} :
        /\ ~Cut(r)
        /\ Commit(r)
        /\ last' = r.ret
    /\ UNCHANGED <<image, parent, fs, boot, sem, touched>>

\* the arguments of the system calls: prot with every combination of the low three bits
\* and one bit above them; aligned and misaligned addresses; lengths of no byte, one
\* byte, one page and one byte more than a page
Prots == 0 .. 8
SysStarts == {v * PAGE_SIZE + d : v \in {1, 3}, d \in {0, 1}}
SysLens == {0, 1, PAGE_SIZE, PAGE_SIZE + 1}

\* one process that calls sys_mmap and sys_munmap and takes faults of every kind
NextSys ==
    \/ \E a \in Spaces, start \in SysStarts, len \in SysLens, prot \in Prots :
         SysMmap(a, start, len, prot)
    \/ \E a \in Spaces, start \in SysStarts, len \in SysLens : SysMunmap(a, start, len)
    \/ \E a \in Spaces, vpn \in VPNS, kind \in FaultTypes : PageFault(a, vpn, kind)

SpecSys == Init /\ [][NextSys]_allvars

\* ---------------------------------------------------------- observations
NoBytes == 0 - 1
\* the bytes the entry of vpn in address space a points at, in the page tables ptv and the
\* memory memv (NoBytes when the entry is not valid)
Bytes(ptv, memv, a, vpn) ==
    LET p == ptv[<<a, vpn>>] IN
    IF PTEValid(p) /\ p.ppn \in Frames THEN memv[p.ppn] ELSE NoBytes

\* what a user load of vpn in address space a reads: the bytes of the page, after the
\* load fault the access raises when it traps; NoBytes when the access is refused
UserRead(a, vpn) ==
    IF ~Traps(a, vpn, "Load") THEN Bytes(pt, mem, a, vpn)
    ELSE LET r == MemorySet_page_fault(Cur, a, vpn, "Load") IN
         IF r.st = "ok" /\ r.ret = 0 /\ "U" \in r.pt[<<a, vpn>>].flags
         THEN Bytes(r.pt, r.mem, a, vpn)
         ELSE NoBytes

\* ------------------------------------------------------------ properties
\* C1: copy-on-write isolation. A Store page fault of address space a at vpn, and the
\* store that follows it, leave the bytes every other address space has at vpn as they
\* were; the fault on a COW page keeps the writer's own bytes and makes its entry
\* writable, and the store puts the writer's value into the writer's page only.
C1_CowIsolation ==
    [][\A a \in Spaces, vpn \in VPNS :
        /\ PageFault(a, vpn, "Store") =>
            /\ \A b \in live \ {a} : Bytes(pt', mem', b, vpn) = Bytes(pt, mem, b, vpn)
            /\ fmap[<<a, vpn>>].t = "COW" /\ last' = 0 =>
                /\ Bytes(pt', mem', a, vpn) = Bytes(pt, mem, a, vpn)
                /\ "W" \in pt'[<<a, vpn>>].flags
                /\ fmap'[<<a, vpn>>].t = "Ownd"
        /\ UserWrite(a, vpn) =>
            /\ \A b \in live \ {a} : Bytes(pt', mem', b, vpn) = Bytes(pt, mem, b, vpn)
            /\ Bytes(pt', mem', a, vpn) = a
      ]_allvars

\* the child has written the ELF page after the fork, the parent still has the ELF bytes
C1_Witness ==
    /\ halt = "ok" /\ live = Spaces /\ parent[MaxSpaces] = 1
    /\ fmap[<<1, 0>>].t = "Ownd" /\ fmap[<<MaxSpaces, 0>>].t = "Ownd"
    /\ Bytes(pt, mem, MaxSpaces, 0) = MaxSpaces
    /\ Bytes(pt, mem, 1, 0) = FileBytes(<<ElfInode, PAGE_SIZE>>)

\* C2: fork parentage. A forked address space and its parent read identical bytes at
\* every vpn that neither of them has written or remapped since the fork.
C2_ForkParentage ==
    halt = "ok" =>
        \A c \in live : parent[c] # 0 =>
            \A vpn \in VPNS \ touched[c] : UserRead(c, vpn) = UserRead(parent[c], vpn)

\* parent and child still read the ELF bytes at vpn 0 after the child wrote another page
C2_Witness ==
    /\ halt = "ok"
    /\ \E c \in live :
        /\ parent[c] # 0 /\ 0 \notin touched[c]
        /\ \E vpn \in touched[c] : Bytes(pt, mem, c, vpn) = c
        /\ UserRead(c, 0) = FileBytes(<<ElfInode, PAGE_SIZE>>)
        /\ UserRead(parent[c], 0) = FileBytes(<<ElfInode, PAGE_SIZE>>)

\* C3: COW consistency. No entry of a COW record is writable (it is valid and points at
\* the shared frame), and the frame of an Owned record belongs to no other record.
C3_CowConsistency ==
    \A k \in Keys :
        /\ fmap[k].t = "COW" =>
            /\ "W" \notin pt[k].flags
            /\ PTEValid(pt[k]) /\ pt[k].ppn = fmap[k].f
        /\ fmap[k].t = "Ownd" =>
            \A k2 \in Keys \ {k} : fmap[k2].t \in {"Ownd", "COW"} => fmap[k2].f # fmap[k].f

\* one side of a shared page has taken its copy, the other still holds the COW record
C3_Witness ==
    \E k \in Keys, k2 \in Keys :
        /\ k[2] = k2[2] /\ k[1] # k2[1]
        /\ fmap[k].t = "COW" /\ fmap[k2].t = "Ownd" /\ "W" \in pt[k2].flags

\* C4: frame-record validity. After every completed operation the entry of a Lazy record
\* is not valid, and the entry of an Owned record is valid and points at the record's frame.
C4_FrameRecordValid ==
    halt = "ok" =>
        \A k \in Keys :
            /\ fmap[k].t = "Lazy" => ~PTEValid(pt[k])
            /\ fmap[k].t = "Ownd" => PTEValid(pt[k]) /\ pt[k].ppn = fmap[k].f

\* C5: area disjointness. No two map areas of an address space contain the same vpn.
C5_AreaDisjoint ==
    \A a \in live :
        \A i \in 1 .. Len(areas[a]), j \in 1 .. Len(areas[a]) :
            i # j => RangeSet(areas[a][i].s, areas[a][i].e)
                        \cap RangeSet(areas[a][j].s, areas[a][j].e) = {}

\* the page of vpn in address space a lies in a FilePriv area that permits W, and is
\* still a file page
PrivFilePage(a, vpn) ==
    LET i == FindAreaContaining(areas[a], vpn) IN
    /\ i # 0
    /\ areas[a][i].ty = "FilePriv" /\ "W" \in areas[a][i].perm
    /\ vpn \in DOMAIN areas[a][i].pages /\ areas[a][i].pages[vpn] = "FilePriv"

\* C6: FilePriv write fault. A Store page fault on such a page returns 0; afterwards the
\* page has an Owned record and no file record, its entry is valid, writable and points
\* at a frame allocated by the fault, which is not the resident frame of the file page
\* and holds the bytes of the file page.
C6_PrivStoreFault ==
    [][\A a \in Spaces, vpn \in VPNS :
        PageFault(a, vpn, "Store") /\ PrivFilePage(a, vpn) =>
            LET k == <<a, vpn>>
                pos == filemap[k]
            IN  /\ last' = 0 /\ halt' = "ok"
                /\ fmap'[k].t = "Ownd" /\ filemap'[k] = NoPos
                /\ PTEValid(pt'[k]) /\ "W" \in pt'[k].flags /\ pt'[k].ppn = fmap'[k].f
                /\ fmap'[k].f \notin used
                /\ fmap'[k].f # files'[pos]
                /\ mem'[fmap'[k].f] = FileBytes(pos)
      ]_allvars

\* C7: the load of the file tracker fills the page from the file. A Load page fault on a
\* file page that is not resident makes it resident in a frame that holds the bytes of
\* the file at the page's (inode, offset), and the user then reads these bytes.
C7_FileLoadReads ==
    [][\A a \in Spaces, vpn \in VPNS :
        /\ PageFault(a, vpn, "Load")
        /\ filemap[<<a, vpn>>] # NoPos /\ ~MFileLoaded(Cur, filemap[<<a, vpn>>])
        /\ last' = 0 /\ halt' = "ok"
        => LET pos == filemap[<<a, vpn>>] IN
            /\ files'[pos] \in Frames
            /\ mem'[files'[pos]] = FileBytes(pos)
            /\ Bytes(pt', mem', a, vpn) = FileBytes(pos)
      ]_allvars

\* the vpns of address space a that the file tracker holds
FileBacked(a) == {vpn \in VPNS : filemap[<<a, vpn>>] # NoPos}

\* C8: the fork of file-backed pages completes. The fork of an address space with
\* file-backed pages returns, and the child's entry of every such page is registered
\* against the (inode, offset) of the parent's entry.
C8_ForkFileBacked ==
    [][\A a \in Spaces :
        Fork(a) /\ FileBacked(a) # {} =>
            /\ halt' = "ok"
            /\ \E c \in live' \ live :
                \A vpn \in FileBacked(a) : filemap'[<<c, vpn>>] = filemap[<<a, vpn>>]
      ]_allvars

\* the range [s, e) has a critical page or a page of an area of address space a
MmapRefused(a, s, e) ==
    \E v \in VPNS :
        /\ s <= v /\ v < e
        /\ \/ v = TRAMPOLINE_VPN \/ v = TRAP_CONTEXT_VPN
           \/ \E i \in 1 .. Len(areas[a]) : areas[a][i].s <= v /\ v < areas[a][i].e

\* C9: the mmap contract. In every state, for every range and permission: a refused mmap
\* returns -1 and changes no area, record, entry or frame; any other mmap returns 0 and
\* adds one Framed area over the range, each page of it with a Lazy record and an entry
\* that is not valid, and allocates no frame.
C9_MmapContract ==
    halt = "ok" =>
    \A a \in live, r \in Ranges, perm \in PermSet :
        \A res \in {MemorySet_mmap(Cur, a, r[1], r[2], perm)} :
            IF MmapRefused(a, r[1], r[2])
            THEN /\ res.ret = 0 - 1
                 /\ res = [Cur EXCEPT !.ret = 0 - 1]
            ELSE /\ res.ret = 0 /\ res.st = "ok"
                 /\ Len(res.areas[a]) = Len(areas[a]) + 1
                 /\ SubSeq(res.areas[a], 1, Len(areas[a])) = areas[a]
                 /\ \A b \in Spaces \ {a} : res.areas[b] = areas[b]
                 /\ LET new == res.areas[a][Len(res.areas[a])] IN
                     /\ new.s = r[1] /\ new.e = r[2]
                     /\ new.ty = "Framed" /\ new.perm = perm
                     /\ DOMAIN new.pages = RangeSet(r[1], r[2])
                     /\ \A v \in RangeSet(r[1], r[2]) : new.pages[v] = "Framed"
                 /\ \A v \in RangeSet(r[1], r[2]) :
                     res.fmap[<<a, v>>] = LazyRec /\ ~PTEValid(res.pt[<<a, v>>])
                 /\ \A k \in Keys :
                     k[1] # a \/ k[2] \notin RangeSet(r[1], r[2]) =>
                        res.fmap[k] = fmap[k] /\ res.pt[k] = pt[k]
                 /\ res.used = used /\ res.mem = mem
                 /\ res.filemap = filemap /\ res.files = files

\* an accepted mmap: the last area is read-only and user, all its pages Lazy
C9_Witness ==
    /\ halt = "ok" /\ last = 0
    /\ LET new == areas[1][Len(areas[1])] IN
        /\ new.perm = RU /\ new.ty = "Framed" /\ new.e > new.s + 1
        /\ \A v \in RangeSet(new.s, new.e) :
            fmap[<<1, v>>] = LazyRec /\ ~PTEValid(pt[<<1, v>>])

\* the range [s, e) has a critical page or a page that no area of address space a covers
MunmapRefused(a, s, e) ==
    \E v \in VPNS :
        /\ s <= v /\ v < e
        /\ \/ v = TRAMPOLINE_VPN \/ v = TRAP_CONTEXT_VPN
           \/ ~\E i \in 1 .. Len(areas[a]) : areas[a][i].s <= v /\ v < areas[a][i].e

\* C10: munmap rejection. A munmap whose range has a critical page or a page that no
\* area covers returns -1 and changes no area, record or entry.
C10_MunmapRejects ==
    [][\A a \in Spaces, r \in Ranges :
        Munmap(a, r[1], r[2]) /\ MunmapRefused(a, r[1], r[2]) =>
            /\ last' = 0 - 1
            /\ UNCHANGED <<areas, fmap, filemap, files, pt, used, mem, halt>>
      ]_allvars

\* the part of area inside [lo, hi): its range, policy, permission and page handles
AreaPart(area, lo, hi, off) ==
    Area(lo, hi, area.ty, area.perm, area.file, off,
         [v \in {x \in DOMAIN area.pages : lo <= x /\ x < hi} |-> area.pages[v]])

\* the range [s, e) is not empty and lies strictly inside the i-th area of address space a
StrictlyInside(a, i, s, e) ==
    /\ i \in 1 .. Len(areas[a])
    /\ areas[a][i].s < s /\ s < e /\ e < areas[a][i].e

\* C11: partial munmap. In every state, a munmap of a range strictly inside an area that
\* returns 0 puts the two areas [s,a) and [b,e) in the place of that area, each with the
\* policy, the permission and the page handles of the original; the records of the pages
\* of [a,b) are gone and their entries are not valid; the records and entries of all
\* other pages, and all other areas, are as before; has_unmapped([a,b)) is true afterwards.
C11_PartialMunmap ==
    halt = "ok" =>
    \A a \in live, r \in PageRuns, i \in 1 .. MaxAreas + 1 :
        StrictlyInside(a, i, r[1], r[2]) =>
        \A res \in {MemorySet_munmap(Cur, a, r[1], r[2])} :
            res.ret = 0 /\ res.st = "ok" =>
                /\ res.areas[a] =
                     SubSeq(areas[a], 1, i - 1)
                     \o <<AreaPart(areas[a][i], areas[a][i].s, r[1], areas[a][i].off),
                          AreaPart(areas[a][i], r[2], areas[a][i].e,
                                   SplitRightOffset(areas[a][i], r[2]))>>
                     \o SubSeq(areas[a], i + 1, Len(areas[a]))
                /\ \A b \in Spaces \ {a} : res.areas[b] = areas[b]
                /\ \A v \in RangeSet(r[1], r[2]) :
                     res.fmap[<<a, v>>] = NoRec /\ ~PTEValid(res.pt[<<a, v>>])
                /\ \A k \in Keys :
                     k[1] # a \/ k[2] \notin RangeSet(r[1], r[2]) =>
                        res.fmap[k] = fmap[k] /\ res.pt[k] = pt[k]
                /\ MemorySet_has_unmapped(res.areas[a], r[1], r[2])

\* a state in which a munmap strictly inside an area succeeds, with a loaded page on
\* either side of the hole
C11_Witness ==
    /\ halt = "ok"
    /\ \E r \in PageRuns, i \in 1 .. MaxAreas + 1 :
        /\ StrictlyInside(1, i, r[1], r[2])
        /\ fmap[<<1, areas[1][i].s>>].t = "Ownd"
        /\ fmap[<<1, areas[1][i].e - 1>>].t = "Ownd"
        /\ \E res \in {MemorySet_munmap(Cur, 1, r[1], r[2])} :
            /\ res.ret = 0 /\ res.st = "ok"
            /\ Len(res.areas[1]) = Len(areas[1]) + 1

\* the areas of a Vec as a set of (range, policy, permission)
AreaSet(seq) == {<<seq[i].s, seq[i].e, seq[i].ty, seq[i].perm>> : i \in 1 .. Len(seq)}

\* C12: mmap/munmap round trip. In every state, for every range [a,b) and permission for
\* which mmap returns 0, the munmap of [a,b) that follows returns 0 and leaves the address
\* space with the set of areas it had before the mmap, no entry of [a,b) valid and no
\* frame-tracker record for a page of [a,b).
C12_MmapMunmapRoundTrip ==
    halt = "ok" =>
    \A a \in live, r \in Ranges, perm \in PermSet :
        \A m \in {MemorySet_mmap(Cur, a, r[1], r[2], perm)} :
            m.ret = 0 /\ m.st = "ok" =>
            \A u \in {MemorySet_munmap(m, a, r[1], r[2])} :
                /\ u.ret = 0 /\ u.st = "ok"
                /\ AreaSet(u.areas[a]) = AreaSet(areas[a])
                /\ \A v \in RangeSet(r[1], r[2]) :
                     u.fmap[<<a, v>>] = NoRec /\ ~PTEValid(u.pt[<<a, v>>])

\* the value the spec gives page_fault for a fault of the kind at vpn when the first
\* area holding vpn has the permission perm (0: the fault is handled)
FaultCode(covered, perm, kind) ==
    IF ~covered THEN 0 - 1
    ELSE IF "U" \notin perm THEN 0 - 2
    ELSE IF kind = "Instruction" /\ "X" \notin perm THEN 0 - 3
    ELSE IF kind = "Store" /\ "W" \notin perm THEN 0 - 4
    ELSE IF kind = "Load" /\ "R" \notin perm THEN 0 - 5
    ELSE 0

\* C13: page-fault error codes. In every state, for every address and fault kind:
\* page_fault returns -1 when no area holds the address, else -2 when the area lacks U,
\* else -3 for an Instruction fault without X, else -4 for a Store fault without W, else
\* -5 for a Load fault without R, and in each of these cases changes nothing.
C13_FaultErrorCodes ==
    halt = "ok" =>
    \A a \in live, vpn \in VPNS, kind \in FaultTypes :
        \A res \in {MemorySet_page_fault(Cur, a, vpn, kind)} :
            LET cover == {i \in 1 .. Len(areas[a]) :
                            areas[a][i].s <= vpn /\ vpn < areas[a][i].e}
                perm == IF cover = {} THEN {} ELSE areas[a][Min(cover)].perm
                code == FaultCode(cover # {}, perm, kind)
            IN  IF code # 0 THEN res = [Cur EXCEPT !.ret = code]
                ELSE res.ret = 0

\* a Load fault on a page of an area mapped without R has returned -5
C13_Witness ==
    /\ halt = "ok" /\ last = 0 - 5
    /\ \E i \in 1 .. Len(areas[1]) :
        "R" \notin areas[1][i].perm /\ "U" \in areas[1][i].perm

\* C14: FilePriv writes never reach the file. In every state (after stores to FilePriv
\* pages, the exit of the process and the slim of the file tracker included) the bytes
\* and the size of every inode are the ones it had before the mapping was created.
C14_FileUnchanged ==
    /\ \A pos \in FilePosSet : disk.bytes[pos] = FileBytes(pos)
    /\ \A i \in Inodes : disk.size[i] = FilePageCount * PAGE_SIZE

\* C15: critical pages stay mapped. In every state each address space has a valid
\* trampoline entry, and a valid trap-context entry that points at the frame of an Owned
\* record.
C15_CriticalMapped ==
    \A a \in live :
        /\ PTEValid(pt[<<a, TRAMPOLINE_VPN>>])
        /\ PTEValid(pt[<<a, TRAP_CONTEXT_VPN>>])
        /\ fmap[<<a, TRAP_CONTEXT_VPN>>].t = "Ownd"
        /\ pt[<<a, TRAP_CONTEXT_VPN>>].ppn = fmap[<<a, TRAP_CONTEXT_VPN>>].f

\* parent and child both live, each with a loaded mmap page under the trap context,
\* and a request on a range with a critical page has just been refused
C15_Witness ==
    /\ halt = "ok" /\ live = Spaces /\ last = 0 - 1
    /\ \A a \in Spaces :
        /\ fmap[<<a, TRAP_CONTEXT_VPN - 1>>].t \in {"Ownd", "COW"}
        /\ ~PTEValid(pt[<<a, UserStackBottom(1)>>])

\* no hart is inside an inode operation
Quiet == fs.lock = 0 /\ \A h \in Harts : fs.harts[h].pc = "idle"

\* the sequence seq without its i-th element
Without(seq, i) == SubSeq(seq, 1, i - 1) \o SubSeq(seq, i + 1, Len(seq))

\* C16: unlink removes exactly one entry and compacts. Whenever no operation is in
\* progress, for every name: if the directory has an entry e_i of that name, unlink
\* returns (inode id of e_i, link count of that inode before the call), the directory
\* then lists the other entries in their order, its size is (n-1) * DIRENT_SZ and find
\* of the name returns none; otherwise unlink returns none and the directory, its size and
\* all link counts are unchanged.
C16_UnlinkCompacts ==
    Quiet =>
    \A name \in Names :
        \A res \in {Whole(fs, 1, "unlink", name, 1)} :
            LET entries == dir_entries(fs)
                hits == {j \in 1 .. Len(entries) : entries[j].name = name}
            IN  IF hits # {}
                THEN LET e == entries[Min(hits)] IN
                     /\ res.ret = <<e.id, fs.links[e.id]>>
                     /\ dir_entries(res) = Without(entries, Min(hits))
                     /\ res.isize[RootId] = (Len(entries) - 1) * DIRENT_SZ
                     /\ find_inode_id(res, name) = 0 - 1
                     /\ res.lock = 0
                ELSE /\ res.ret = NoneRet
                     /\ res = [fs EXCEPT !.ret = NoneRet]

\* an unlink has returned the inode and its previous link count after it took the entry
\* in the middle of three: the last entry was moved down, its old slot is stale
C16_Witness ==
    /\ Quiet /\ fs.ret[2] >= 1
    /\ Len(ls(fs)) = 2
    /\ fs.slots[2] = fs.slots[1] /\ fs.slots[1] # fs.slots[0]

\* the number of directory entries that name inode id: one for its create, one more for
\* every successful link, one fewer for every successful unlink
NamesOf(f, id) ==
    Cardinality({i \in 0 .. f.isize[RootId] \div DIRENT_SZ - 1 : f.slots[i].id = id})

\* the data blocks of inode id
BlocksOf(f, id) == {f.iblocks[id][j] : j \in 1 .. Len(f.iblocks[id])}

\* C17: link accounting. Whenever no operation is in progress, get_links of every file
\* inode equals the number of names it has (k + 1 - m after its create, k links and m
\* unlinks); while it has a name, its id and its data blocks are allocated; an unlink of
\* one of its names leaves the count one lower and frees the id and all its data blocks
\* exactly when that was the last name.
C17_LinkAccounting ==
    Quiet =>
    \A id \in FileIds :
        /\ fs.links[id] = NamesOf(fs, id)
        /\ IF NamesOf(fs, id) > 0
           THEN /\ id \in fs.ibitmap
                /\ Len(fs.iblocks[id]) = total_blocks(fs.isize[id])
                /\ BlocksOf(fs, id) \subseteq fs.dbitmap
           ELSE id \notin fs.ibitmap /\ fs.iblocks[id] = <<>>
        /\ \A name \in Names :
               find_inode_id(fs, name) = id =>
               \A res \in {Whole(fs, 1, "unlink", name, 1)} :
                   /\ res.links[id] = fs.links[id] - 1
                   /\ IF fs.links[id] = 1
                      THEN /\ id \notin res.ibitmap
                           /\ res.dbitmap \cap BlocksOf(fs, id) = {}
                           /\ res.iblocks[id] = <<>>
                      ELSE /\ res.ibitmap = fs.ibitmap
                           /\ BlocksOf(fs, id) \subseteq res.dbitmap
                           /\ res.iblocks[id] = fs.iblocks[id]

\* an unlink has just taken the last name of an inode that had data, so that its id and
\* its block are free again, while the other inode has two names and a data block
C17_Witness ==
    /\ Quiet /\ fs.ret[2] = 1
    /\ fs.ret[1] \notin fs.ibitmap
    /\ \E id \in FileIds : fs.links[id] = 2 /\ fs.iblocks[id] # <<>>
    /\ Cardinality(fs.dbitmap) = 2

\* hart h is in ls and has read the names, the guard not yet dropped
LsDone(h) == fs.harts[h].op = "ls" /\ fs.harts[h].pc = "done"

\* the list has no two equal names
NoDuplicate(list) == \A i, j \in 1 .. Len(list) : list[i] = list[j] => i = j

\* the list is the listing before or after the operation hart g is in, if it is in one
BeforeOrAfter(list, g) ==
    fs.harts[g].pc = "idle" \/ list \in {fs.harts[g].pre, ls(Finish(fs, g))}

\* C18: directory atomicity. The list an ls has read has length size / DIRENT_SZ, has no
\* duplicate name and no empty name, and is the listing before or after the create, link
\* or unlink any other hart is in.
C18_DirectoryAtomicity ==
    \A h \in Harts :
        LsDone(h) =>
        /\ Len(fs.harts[h].list) = fs.isize[RootId] \div DIRENT_SZ
        /\ NoDuplicate(fs.harts[h].list)
        /\ \A i \in 1 .. Len(fs.harts[h].list) : fs.harts[h].list[i] # ""
        /\ \A g \in Harts \ {h} : BeforeOrAfter(fs.harts[h].list, g)

\* C19: a name collision is a value error with no effect. Whenever no operation is in
\* progress, for every name the directory has an entry of and every inode id, create(name)
\* and link(name, id) return none and leave the directory entries, the directory size,
\* every link count, every inode and both bitmaps as they were.
C19_CollisionNoEffect ==
    Quiet =>
    \A name \in Names :
        (\E i \in 1 .. Len(ls(fs)) : ls(fs)[i] = name) =>
        \A id \in FileIds :
            /\ \A res \in {Whole(fs, 1, "link", name, id)} :
                   res.ret = NoneRet /\ res = [fs EXCEPT !.ret = NoneRet]
            /\ \A res \in {Whole(fs, 1, "create", name, 1)} :
                   res.ret = NoneRet /\ res = [fs EXCEPT !.ret = NoneRet]

\* a hart has entered create or link with the name of the second entry of the directory,
\* which is not the name of the first
C19_Witness ==
    \E h \in Harts :
        /\ fs.harts[h].pc = "check" /\ fs.harts[h].op \in {"create", "link"}
        /\ fs.isize[RootId] \div DIRENT_SZ >= 2
        /\ fs.slots[1].name = fs.harts[h].name
        /\ fs.slots[0].name # fs.harts[h].name

\* every start address of a page of the model, aligned or one byte past
AllStarts == {v * PAGE_SIZE + d : v \in VPNS, d \in {0, 1}}

\* the argument errors of the spec: start not aligned, a prot bit outside the low three or
\* none of them, no byte in the range, or a page of the range critical or in an area of a
SysMmapBadArgs(a, start, len, prot) ==
    \/ start % PAGE_SIZE # 0
    \/ prot \div 8 # 0 \/ prot % 8 = 0
    \/ len = 0
    \/ MmapRefused(a, VaFloor(start), VaCeil(start + len))

\* C20: sys_mmap argument errors. In every state and for every live address space,
\* sys_mmap with a misaligned start, a prot outside {R, W, X} or with none of them, an
\* empty range or a range that meets an area or a critical page returns -1 and leaves
\* the areas as they were.
C20_SysMmapArgumentErrors ==
    \A a \in live :
        \A start \in AllStarts, len \in SysLens, prot \in Prots :
            SysMmapBadArgs(a, start, len, prot) =>
            \A res \in {sys_mmap(Cur, a, start, len, prot)} :
                res.ret = 0 - 1 /\ res.areas = areas

\* start_hart has returned for hart h
Started(h) == h < boot.cur \/ (h = boot.cur /\ boot.pc \notin {"hart_start", "wait", "forget"})

\* C21: the hart start handshake. start_hart has not returned for a hart, and the
\* context of that call is on the stack, until hart_main of the hart has exchanged sig;
\* a hart is in _hart_start or in the loop of hart_main, the only places that touch the
\* context, only while its context is live, and no released context is ever touched;
\* at most one secondary hart is between its start and its exchange; and with every hart
\* executing, both loops end for every hart: all harts reach run_tasks.
C21_HartHandshake ==
    /\ [](\A h \in Secondary :
            /\ Started(h) => boot.hpc[h] \in {"init_hart", "run_tasks"}
            /\ boot.hpc[h] \in {"_hart_start", "hart_main"} => CtxLive(boot, h)
            /\ ~boot.stale
            /\ \A g \in Secondary :
                   boot.hpc[g] \in {"_hart_start", "hart_main"}
                   /\ boot.hpc[h] \in {"_hart_start", "hart_main"} => g = h)
    /\ <>(boot.pc = "run_tasks" /\ \A h \in Secondary : boot.hpc[h] = "run_tasks")

\* the boot hart has left the loop of start_hart for the last hart while an earlier hart
\* is still in init_hart
C21_Witness ==
    /\ boot.pc = "forget" /\ boot.cur = MaxCpus
    /\ boot.hpc[MaxCpus] = "init_hart"
    /\ \E h \in Secondary : h < boot.cur /\ boot.hpc[h] = "init_hart"

\* vpn is a page of a Framed area of address space a that fork shares copy-on-write:
\* the area has no critical page
CowArea(st, a, vpn) ==
    \E i \in 1 .. Len(st.areas[a]) :
        /\ Contains(st.areas[a][i], vpn)
        /\ st.areas[a][i].ty = "Framed"
        /\ ~\E v \in RangeSet(st.areas[a][i].s, st.areas[a][i].e) : is_critical(v)

\* the record of key k is a COW record and its entry is valid and not writable
CowShared(st, k) ==
    st.fmap[k].t = "COW" /\ PTEValid(st.pt[k]) /\ "W" \notin st.pt[k].flags

\* the record of key k is Owned and its entry is valid and writable
OwnedWritable(st, k) ==
    st.fmap[k].t = "Ownd" /\ PTEValid(st.pt[k]) /\ "W" \in st.pt[k].flags

\* C22: after fork then one write, both sides end Owned and writable. In every state,
\* a fork of an address space leaves every Owned page of its Framed areas as a COW record
\* with an entry lacking W in parent and child; and where parent and child are the two
\* holders of a COW frame in a writable Framed area, the store fault of the child returns
\* 0 and leaves the records of child and parent both Owned, both entries writable.
C22_ForkThenWrite ==
    halt = "ok" =>
    /\ \A a \in live :
           live # Spaces =>
           \A c \in {Min(Spaces \ live)} :
               \A res \in {MemorySet_fork(Cur, a, c)} :
                   res.st = "ok" =>
                   \A vpn \in VPNS :
                       fmap[<<a, vpn>>].t = "Ownd" /\ CowArea(Cur, a, vpn) =>
                       /\ CowShared(res, <<a, vpn>>) /\ CowShared(res, <<c, vpn>>)
                       /\ res.fmap[<<a, vpn>>] = res.fmap[<<c, vpn>>]
    /\ \A c \in live :
           parent[c] \in live =>
           \A vpn \in VPNS :
               /\ CowArea(Cur, c, vpn)
               /\ CowShared(Cur, <<c, vpn>>)
               /\ fmap[<<parent[c], vpn>>] = fmap[<<c, vpn>>]
               /\ StrongCount(Cur, fmap[<<c, vpn>>].f) = 2
               /\ PermCheck(areas[c][FindAreaContaining(areas[c], vpn)].perm, "Store") = 0
               => \A res \in {MemorySet_page_fault(Cur, c, vpn, "Store")} :
                      res.st = "ok" =>
                      /\ res.ret = 0
                      /\ OwnedWritable(res, <<c, vpn>>)
                      /\ OwnedWritable(res, <<parent[c], vpn>>)

\* vpn is a page of a FilePriv area of address space a that a store promoted to a Framed
\* record, and the record is now a COW record
PromotedCow(st, a, vpn) ==
    /\ st.fmap[<<a, vpn>>].t = "COW"
    /\ \E i \in 1 .. Len(st.areas[a]) :
           /\ Contains(st.areas[a][i], vpn)
           /\ st.areas[a][i].ty = "FilePriv"
           /\ st.areas[a][i].pages[vpn] = "Framed"
           /\ PermCheck(st.areas[a][i].perm, "Store") = 0

\* C23: later FilePriv write faults go through cown. In every state, a Store fault on a
\* promoted page of a FilePriv area whose record is COW returns 0 and leaves the record of
\* the faulting side Owned with a valid writable entry.
C23_PrivStoreCown ==
    halt = "ok" =>
    \A a \in live, vpn \in VPNS :
        PromotedCow(Cur, a, vpn) =>
        \A res \in {MemorySet_page_fault(Cur, a, vpn, "Store")} :
            res.st \notin {"oom", "range"} =>
            /\ res.st = "ok" /\ res.ret = 0
            /\ OwnedWritable(res, <<a, vpn>>)

\* C24: the file position of a page. In every state, every page of a file-backed area
\* that still has its file handle is registered in the file tracker at the position
\* (inode of the area, file_offset of the area + (vpn - start vpn) * PAGE_SIZE).
C24_FilePosition ==
    \A a \in live :
        \A i \in 1 .. Len(areas[a]) :
            areas[a][i].ty \in {"FileShared", "FilePriv"} =>
            \A vpn \in DOMAIN areas[a][i].pages :
                areas[a][i].pages[vpn] \in {"FileShared", "FilePriv"} =>
                filemap[<<a, vpn>>] =
                    <<areas[a][i].file, areas[a][i].off + (vpn - areas[a][i].s) * PAGE_SIZE>>

\* vpn is a Lazy page of a Framed area of address space a, and the area permits kind
LazyFramed(a, vpn, kind) ==
    /\ fmap[<<a, vpn>>] = LazyRec /\ ~PTEValid(pt[<<a, vpn>>])
    /\ \E i \in 1 .. Len(areas[a]) :
           /\ Contains(areas[a][i], vpn)
           /\ areas[a][i].ty = "Framed" /\ areas[a][i].pages[vpn] = "Framed"
           /\ PermCheck(areas[a][i].perm, kind) = 0

\* C25: demand paging of a Framed page. In every state, a fault of a permitted kind on
\* a Lazy page of a Framed area returns 0, takes exactly one frame from the allocator,
\* leaves the record of the page Owned with a valid entry that points at that frame and
\* carries the permission bits of the area, the frame reads as zero, and no other record,
\* entry or area changes: the other Lazy pages stay Lazy with an invalid entry.
C25_DemandPaging ==
    halt = "ok" =>
    \A a \in live, vpn \in VPNS, kind \in FaultTypes :
        LazyFramed(a, vpn, kind) =>
        \A res \in {MemorySet_page_fault(Cur, a, vpn, kind)} :
            res.st # "oom" =>
            /\ res.st = "ok" /\ res.ret = 0
            /\ res.fmap[<<a, vpn>>].t = "Ownd"
            /\ res.used = used \cup {res.fmap[<<a, vpn>>].f}
            /\ res.fmap[<<a, vpn>>].f \notin used
            /\ res.pt[<<a, vpn>>] =
                   PTENew(res.fmap[<<a, vpn>>].f,
                          areas[a][FindAreaContaining(areas[a], vpn)].perm \cup {"V"})
            /\ res.mem[res.fmap[<<a, vpn>>].f] = 0
            /\ \A k \in Keys \ {<<a, vpn>>} : res.pt[k] = pt[k] /\ res.fmap[k] = fmap[k]
            /\ res.areas = areas /\ res.filemap = filemap /\ res.files = files

\* an Instruction fault has loaded a page of an executable Framed area made by mmap, the
\* entry carries X, and another mmap page of the address space is still Lazy
C25_Witness ==
    /\ halt = "ok" /\ last = 0
    /\ \E a \in live, vpn \in VPNS, other \in VPNS :
           /\ fmap[<<a, vpn>>].t = "Ownd"
           /\ pt[<<a, vpn>>].flags = {"R", "X", "U", "V"}
           /\ mem[fmap[<<a, vpn>>].f] = 0
           /\ other # vpn /\ fmap[<<a, other>>] = LazyRec /\ ~PTEValid(pt[<<a, other>>])

\* the entries that hold a COW record of frame f
Holders(st, f) == {k \in Keys : st.fmap[k] = COWRec(f)}

\* every order in which the entries of H can be taken
Orders(H) ==
    {o \in [1 .. Cardinality(H) -> H] : \A i, j \in 1 .. Cardinality(H) : o[i] = o[j] => i = j}

\* cown by the entries of order from the i-th on, one after the other, on the frame f
\* of bytes b: each but the last takes a new frame with the bytes, the last takes f and
\* no new frame; in the end all of them are Owned, with frames that differ and hold b
RECURSIVE CownInOrder(_, _, _, _, _)
CownInOrder(st, order, i, f, b) ==
    IF i > Len(order)
    THEN \A x \in 1 .. Len(order) :
             /\ st.fmap[order[x]].t = "Ownd"
             /\ st.mem[st.fmap[order[x]].f] = b
             /\ st.pt[order[x]].ppn = st.fmap[order[x]].f
             /\ \A y \in 1 .. Len(order) :
                    st.fmap[order[x]].f = st.fmap[order[y]].f => x = y
    ELSE \A r \in {MFrame_cown(st, order[i])} :
             /\ r.st = "ok"
             /\ r.fmap[order[i]].t = "Ownd"
             /\ IF i < Len(order)
                THEN /\ r.fmap[order[i]].f \notin st.used
                     /\ r.used = st.used \cup {r.fmap[order[i]].f}
                     /\ r.mem[r.fmap[order[i]].f] = b
                ELSE /\ r.fmap[order[i]].f = f
                     /\ r.used = st.used
             /\ r.mem[f] = b
             /\ CownInOrder(r, order, i + 1, f, b)

\* C26: the cown allocation rule. In every state, for every frame shared by n >= 2 COW
\* records and every order of its holders: when each performs cown once, each of the
\* first n - 1 takes a new frame holding a copy of the shared bytes, the last takes the
\* shared frame and allocates nothing, and all n end Owned with pairwise distinct frames
\* holding those bytes; and cown on an Owned record changes nothing.
C26_CownAllocation ==
    halt = "ok" =>
    /\ \A f \in Frames :
           Cardinality(Holders(Cur, f)) >= 2 =>
           \A order \in Orders(Holders(Cur, f)) : CownInOrder(Cur, order, 1, f, mem[f])
    /\ \A k \in Keys : fmap[k].t = "Ownd" => MFrame_cown(Cur, k) = Cur

\* four entries shared the first frame and all have performed cown: they are Owned with
\* four frames, and the shared frame went to an entry other than its first owner
C26_Witness ==
    /\ halt = "ok"
    /\ \A k \in TrackKeys : fmap[k].t = "Ownd" /\ mem[fmap[k].f] = FileBytes(<<ElfInode, PAGE_SIZE>>)
    /\ Cardinality({fmap[k].f : k \in TrackKeys}) = 4
    /\ \E k \in TrackKeys \ {<<1, 0>>} : fmap[k].f = KeyIndex(<<1, 0>>)

\* the entries registered at the file position pos
Sharers(st, pos) == {k \in Keys : st.filemap[k] = pos}

\* C27: file-page sharing. In every state, all valid entries registered at one file
\* position point at the one resident frame of that position; and for any two entries
\* registered at the same position, a load through one and then through the other takes
\* at most one new frame and leaves both pointing at the resident frame of the position.
C27_FilePageSharing ==
    \A pos \in FilePosSet :
        /\ \A k \in Sharers(Cur, pos) :
               PTEValid(pt[k]) => MFileLoaded(Cur, pos) /\ pt[k].ppn = files[pos]
        /\ halt = "ok" =>
           \A k1 \in Sharers(Cur, pos) : \A k2 \in Sharers(Cur, pos) \ {k1} :
               \A r1 \in {MFile_load(Cur, k1, RWU \cup {"V"})} :
               \A r2 \in {MFile_load(r1, k2, RU \cup {"V"})} :
                   r2.st = "ok" =>
                   /\ r2.pt[k1].ppn = r2.files[pos] /\ PTEValid(r2.pt[k1])
                   /\ r2.pt[k2].ppn = r2.files[pos] /\ PTEValid(r2.pt[k2])
                   /\ r1.files[pos] = r2.files[pos]
                   /\ Cardinality(r2.used \ used) <= 1
                   /\ MFileLoaded(Cur, pos) => r2.used = used /\ r2.files[pos] = files[pos]

\* the three entries of two address spaces are registered at the second page of the file and
\* two of them have been loaded: both point at its one resident frame
C27_Witness ==
    \E pos \in FilePosSet :
        /\ pos[2] = PAGE_SIZE
        /\ Cardinality(Sharers(Cur, pos)) = 3
        /\ \E k1 \in Sharers(Cur, pos), k2 \in Sharers(Cur, pos) :
               /\ k1[1] # k2[1]
               /\ PTEValid(pt[k1]) /\ PTEValid(pt[k2])
               /\ pt[k1].ppn = pt[k2].ppn
        /\ \E k3 \in Sharers(Cur, pos) : ~PTEValid(pt[k3])

\* C28: slim reclaims only unreferenced file pages. In every state, slim removes exactly
\* the files no entry is registered at, writes the resident frame of each of them to its
\* page of the inode and releases it, and leaves every file an entry is registered at
\* registered, with its resident frame and its page of the inode as they were; no
\* page-table entry, frame record or registration changes.
C28_SlimUnreferenced ==
    halt = "ok" =>
    \A res \in {MFile_slim(Cur)} :
        /\ res.st = "ok"
        /\ res.pt = pt /\ res.filemap = filemap /\ res.fmap = fmap
        /\ \A pos \in FilePosSet :
               IF Sharers(Cur, pos) = {}
               THEN /\ res.files[pos] = 0 - 1
                    /\ IF MFileLoaded(Cur, pos)
                       THEN /\ res.disk.bytes[pos] = mem[files[pos]]
                            /\ files[pos] \notin res.used
                       ELSE res.disk.bytes[pos] = disk.bytes[pos]
               ELSE /\ res.files[pos] = files[pos]
                    /\ res.disk.bytes[pos] = disk.bytes[pos]
                    /\ MFileLoaded(Cur, pos) =>
                           files[pos] \in res.used /\ res.mem[files[pos]] = mem[files[pos]]

\* slim has just released the resident frame of a file page nothing is registered at any
\* more and written it to the inode, while a file page with two sharers stays resident
C28_Witness ==
    /\ halt = "ok"
    /\ \E pos \in FilePosSet :
           /\ files[pos] = 0 - 1
           /\ disk.bytes[pos] # FileBytes(pos)
    /\ \E pos \in FilePosSet :
           /\ Cardinality(Sharers(Cur, pos)) = 2
           /\ MFileLoaded(Cur, pos)
           /\ disk.bytes[pos] = FileBytes(pos)
    /\ \A pos \in FilePosSet : Sharers(Cur, pos) = {} => files[pos] = 0 - 1

\* C29: file-record validity. In every state reached by file-tracker map, load, unmap,
\* slim and share operations, every registered entry that is valid references a resident
\* file and points at that file's frame; every entry registered at a file that is not
\* resident is invalid; and unmap of a registered entry (while the kernel runs) leaves
\* the entry invalid and the file's record as it was.
C29_FileRecordValidity ==
    \A k \in Keys :
        filemap[k] # NoPos =>
            /\ files[filemap[k]] # 0 - 1
            /\ PTEValid(pt[k]) => MFileLoaded(Cur, filemap[k]) /\ pt[k].ppn = files[filemap[k]]
            /\ ~MFileLoaded(Cur, filemap[k]) => ~PTEValid(pt[k])
            /\ halt = "ok" =>
               \A res \in {MFile_unmap(Cur, k)} :
                   /\ ~PTEValid(res.pt[k])
                   /\ res.filemap[k] = NoPos
                   /\ res.files = files

\* every entry of a resident file has been unmapped: the file stays resident with no
\* entry registered at it, no entry is valid at its frame, and an entry of another
\* file is still valid at that file's frame
C29_Witness ==
    /\ halt = "ok"
    /\ \E pos \in FilePosSet :
           /\ MFileLoaded(Cur, pos)
           /\ Sharers(Cur, pos) = {}
           /\ \A k \in MFileKeys : ~PTEValid(pt[k]) \/ pt[k].ppn # files[pos]
    /\ \E k \in MFileKeys :
           /\ filemap[k] # NoPos
           /\ PTEValid(pt[k])
    /\ \E k \in MFileKeys : filemap[k] # NoPos /\ ~PTEValid(pt[k])

\* ------------------------------------------------------------- lock order
\* The mutexes an operation takes and releases, in program order, as a sequence of
\* <<"acq", m>> and <<"rel", m>> with m one of "fs" (the file-system mutex of easy-fs),
\* "mfile" (MFILE_MANAGER) and "mframe" (MFRAME_MANAGER).
Acq(m) == <<"acq", m>>
Rel(m) == <<"rel", m>>
TrackerLocks == {"mfile", "mframe"}

\* the mutexes held after the first n events of a lock sequence
RECURSIVE HeldAfter(_, _)
HeldAfter(tr, n) ==
    IF n = 0 THEN {}
    ELSE IF tr[n][1] = "acq" THEN HeldAfter(tr, n - 1) \cup {tr[n][2]}
    ELSE HeldAfter(tr, n - 1) \ {tr[n][2]}

\* some event of tr takes inner while outer is held
TakenUnder(tr, inner, outer) ==
    \E n \in 1 .. Len(tr) : tr[n] = Acq(inner) /\ outer \in HeldAfter(tr, n - 1)

\* neither is the file-system mutex taken under a tracker mutex nor a tracker mutex
\* under the file-system mutex
LockIndependent(tr) ==
    \A t \in TrackerLocks : ~TakenUnder(tr, "fs", t) /\ ~TakenUnder(tr, t, "fs")

\* Inode::get_inode_id: self.fs.lock() for the lookup, released at the end of the statement
get_inode_id_locks == <<Acq("fs"), Rel("fs")>>

\* Inode::write_at and read_at: let _fs = self.fs.lock()
Inode_rw_locks == <<Acq("fs"), Rel("fs")>>

\* FilePos::cmp: the inode id of each side
FilePos_cmp_locks == get_inode_id_locks \o get_inode_id_locks

\* the records a search for pos in the ordered set `files` compares pos with: those up
\* to the first one that is not less than pos
Searched(s, pos) ==
    {q \in FilePosSet :
        /\ s.files[q] # 0 - 1
        /\ \A p \in FilePosSet :
               s.files[p] # 0 - 1 /\ PosIndex(p) < PosIndex(q) => PosIndex(p) < PosIndex(pos)}

\* n comparisons of file positions
RECURSIVE Compare_locks(_)
Compare_locks(n) == IF n = 0 THEN <<>> ELSE FilePos_cmp_locks \o Compare_locks(n - 1)

\* MFileHandle::map: MFileManager::map under MFILE_MANAGER; files.contains(&file)
\* searches `files` by FilePos::cmp (the later insert or get and rmap.entry search
\* again, which adds comparisons of the same kind)
MFileHandle_map_locks(s, pos) ==
    <<Acq("mfile")>> \o Compare_locks(Cardinality(Searched(s, pos))) \o <<Rel("mfile")>>

\* MFileHandle::load: MFileManager::load looks the entry up by its address
MFileHandle_load_locks == <<Acq("mfile"), Rel("mfile")>>

\* MFileHandle::drop: MFileManager::unmap under MFILE_MANAGER; rmap.get_mut(&file.pos)
\* searches rmap by FilePos::cmp and finds the key, so it compares at least once
MFileHandle_drop_locks(s, k) ==
    IF s.filemap[k] = NoPos THEN <<Acq("mfile"), Rel("mfile")>>
    ELSE <<Acq("mfile")>> \o Compare_locks(1) \o <<Rel("mfile")>>

\* MFileHandle::share_fully: the second MFILE_MANAGER.lock() never returns
MFileHandle_share_locks == <<Acq("mfile"), Acq("mfile")>>

\* MFile::sync: pos.write, i.e. Inode::write_at, when the file is resident
MFile_sync_locks(s, pos) == IF MFileLoaded(s, pos) THEN Inode_rw_locks ELSE <<>>

\* the loop of MFileManager::slim: sync, then files.remove(&file), a search of `files`
RECURSIVE MFile_slim_loop_locks(_, _)
MFile_slim_loop_locks(s, recycle) ==
    IF recycle = {} THEN <<>>
    ELSE LET pos == CHOOSE x \in recycle : \A y \in recycle : PosIndex(x) <= PosIndex(y) IN
         MFile_sync_locks(s, pos) \o Compare_locks(Cardinality(Searched(s, pos)))
             \o MFile_slim_loop_locks([s EXCEPT !.files[pos] = 0 - 1], recycle \ {pos})

\* MFileManager::slim takes &mut self of the manager, which lives in MFILE_MANAGER
MFile_slim_locks(s) ==
    <<Acq("mfile")>>
        \o MFile_slim_loop_locks(s, {pos \in FilePosSet :
                                       s.files[pos] # 0 - 1 /\ \A k \in Keys : s.filemap[k] # pos})
        \o <<Rel("mfile")>>

\* MFrameHandle operations: MFRAME_MANAGER only
MFrameHandle_locks == <<Acq("mframe"), Rel("mframe")>>

\* C30: file-system lock independence. In every state in which the kernel runs, no
\* file-tracker operation (map, load, drop, share_fully, slim), frame-tracker operation
\* or inode operation takes the file-system mutex while it holds a tracker mutex, or a
\* tracker mutex while it holds the file-system mutex.
C30_FsLockIndependence ==
    halt = "ok" =>
        /\ LockIndependent(Inode_rw_locks)
        /\ LockIndependent(get_inode_id_locks)
        /\ LockIndependent(MFrameHandle_locks)
        /\ LockIndependent(MFileHandle_load_locks)
        /\ LockIndependent(MFileHandle_share_locks)
        /\ \A k \in MFileKeys : LockIndependent(MFileHandle_drop_locks(Cur, k))
        /\ \A pos \in FilePosSet : LockIndependent(MFileHandle_map_locks(Cur, pos))
        /\ LockIndependent(MFile_slim_locks(Cur))

\* the areas of the live address spaces
LiveAreas == {areas[a][i] : <<a, i>> \in {x \in Spaces \X (1 .. MaxAreas) :
                                             x[1] \in live /\ x[2] <= Len(areas[x[1]])}}

\* the split points: every page number and the one past the trampoline
SplitPoints == 0 .. (TRAMPOLINE_VPN + 1)

IsFilePolicy(area) == area.ty \in {"FileShared", "FilePriv"}

\* the two halves cover [s, m) and [m, e) with m = min(max(v, s), e), and the records
\* are partitioned by page number
SplitPartitions(area, v, l, r) ==
    LET m == Min({Max({v, area.s}), area.e}) IN
    /\ RangeSet(l.s, l.e) = RangeSet(area.s, m)
    /\ RangeSet(r.s, r.e) = RangeSet(m, area.e)
    /\ DOMAIN l.pages = {x \in DOMAIN area.pages : x < m}
    /\ DOMAIN r.pages = {x \in DOMAIN area.pages : x >= m}
    /\ \A x \in DOMAIN l.pages : l.pages[x] = area.pages[x]
    /\ \A x \in DOMAIN r.pages : r.pages[x] = area.pages[x]

\* both halves keep policy, permission and inode
SplitKeeps(area, l, r) ==
    /\ l.ty = area.ty /\ r.ty = area.ty
    /\ l.perm = area.perm /\ r.perm = area.perm
    /\ l.file = area.file /\ r.file = area.file

\* C31: split result. For every area of a live address space and every split point v
\* (v <= s and v >= e included), split(v) returns a left half [s, min(max(v, s), e)) and
\* a right half with the rest, the records are partitioned by page number, both halves
\* keep policy, permission and inode, and for a file-backed area
\* right.file_offset = left.file_offset + left_page_count * PAGE_SIZE.
C31_SplitResult ==
    \A area \in LiveAreas : \A v \in SplitPoints :
        \A lr \in {MapArea_split(area, v)} :
            /\ SplitPartitions(area, v, lr[1], lr[2])
            /\ SplitKeeps(area, lr[1], lr[2])
            /\ IsFilePolicy(area) =>
                   lr[2].off = lr[1].off + Cardinality(RangeSet(lr[1].s, lr[1].e)) * PAGE_SIZE

\* the merged area equals the original in policy, permission, range, file offset and
\* record keys
SameArea(m, area) ==
    /\ m.ty = area.ty
    /\ m.perm = area.perm
    /\ m.s = area.s /\ m.e = area.e
    /\ m.off = area.off
    /\ DOMAIN m.pages = DOMAIN area.pages

\* C32: split/merge round trip. For every area of a live address space and every split
\* point v, the assertions of merge hold for the two results of split(v), and merging
\* them gives an area equal to the original in policy, permission, vpn range, file
\* offset and record keys.
C32_SplitMergeRoundTrip ==
    \A area \in LiveAreas : \A v \in SplitPoints :
        \A lr \in {MapArea_split(area, v)} :
            /\ MapArea_merge_asserts(lr[1], lr[2])
            /\ SameArea(MapArea_merge(lr[1], lr[2]), area)

TrapKey(a) == <<a, TRAP_CONTEXT_VPN>>

\* C33: eager fork of critical areas. The trap-context page of every live address space
\* is an Owned record with a valid writable entry, never a COW one; and MemorySet::fork
\* gives the child an Owned record on a newly allocated frame whose bytes equal the
\* parent's trap-context page, leaving the parent's record, entry and bytes unchanged.
C33_EagerForkCritical ==
    /\ \A a \in live :
           /\ fmap[TrapKey(a)].t = "Ownd"
           /\ PTEValid(pt[TrapKey(a)]) /\ "W" \in pt[TrapKey(a)].flags
           /\ pt[TrapKey(a)].ppn = fmap[TrapKey(a)].f
    /\ halt = "ok" /\ live # Spaces =>
       \A a \in live : \A c \in {Min(Spaces \ live)} :
           \A res \in {MemorySet_fork(Cur, a, c)} :
               res.st = "ok" =>
                   /\ res.fmap[TrapKey(c)].t = "Ownd"
                   /\ res.fmap[TrapKey(c)].f \in res.used \ used
                   /\ res.pt[TrapKey(c)].ppn = res.fmap[TrapKey(c)].f
                   /\ PTEValid(res.pt[TrapKey(c)])
                   /\ res.mem[res.fmap[TrapKey(c)].f] = mem[fmap[TrapKey(a)].f]
                   /\ res.fmap[TrapKey(a)] = fmap[TrapKey(a)]
                   /\ res.pt[TrapKey(a)] = pt[TrapKey(a)]
                   /\ res.mem[fmap[TrapKey(a)].f] = mem[fmap[TrapKey(a)].f]

\* a child whose trap-context frame is its own and holds the registers its parent had
\* saved when it forked
C33_Witness ==
    /\ halt = "ok"
    /\ \E c \in live :
           /\ parent[c] \in live
           /\ fmap[TrapKey(c)].t = "Ownd"
           /\ fmap[TrapKey(c)].f # fmap[TrapKey(parent[c])].f
           /\ mem[fmap[TrapKey(c)].f] = parent[c]
           /\ mem[fmap[TrapKey(parent[c])].f] = parent[c]

\* the end of the highest Load segment of an image
HighestEnd(img) == Max({img.segs[i].e : i \in 1 .. Len(img.segs)})

\* from_elf and from_elf_lazy push the user stack area right after the segment areas
StackArea(a) == areas[a][Len(image.segs) + 1]

\* C34: user stack placement. In the address space built from an image whose Load
\* segments come in any order, the user stack area starts exactly one page above the
\* end of the highest Load segment, that guard page lies in no area, and the stack area
\* overlaps no segment area.
C34_UserStackPlacement ==
    \A a \in live :
        /\ Len(areas[a]) > Len(image.segs)
        /\ StackArea(a).s = HighestEnd(image) + 1
        /\ StackArea(a).e = StackArea(a).s + StackPages
        /\ \A i \in 1 .. Len(areas[a]) :
               HighestEnd(image) \notin RangeSet(areas[a][i].s, areas[a][i].e)
        /\ \A i \in 1 .. Len(image.segs) :
               RangeSet(StackArea(a).s, StackArea(a).e)
                   \cap RangeSet(areas[a][i].s, areas[a][i].e) = {}

\* operation op with arguments name and id can be called: the inode exists, and create
\* finds the name or a free inode
Callable(f, op, name, id) ==
    /\ op = "create" => find_inode_id(f, name) # 0 - 1 \/ FileIds \ f.ibitmap # {}
    /\ op \in {"link", "write"} => id \in f.ibitmap

\* the operation allocated or freed an inode or a data block
Reallocated(f, r) == r.ibitmap # f.ibitmap \/ r.dbitmap # f.dbitmap

\* C35: sync before return. Every inode operation (create, link, unlink, write_at,
\* clear) that allocated or freed an inode or a data block has called
\* block_cache_sync_all after its last such change when it returns.
C35_SyncBeforeReturn ==
    Quiet =>
        /\ \A op \in {"create", "link", "unlink", "write"} :
           \A name \in Names : \A id \in FileIds :
               Callable(fs, op, name, id) =>
                   \A r \in {Whole(fs, 1, op, name, id)} : Reallocated(fs, r) => ~r.dirty
        /\ \A id \in FileIds \cap fs.ibitmap :
               \A r \in {clear_internal(fs, id)} : Reallocated(fs, r) => ~r.dirty

\* C37: a recovered fault makes progress. Whenever an access of kind k to page v of a
\* live address space traps and MemorySet::page_fault returns 0 for it, the entry of v
\* is valid afterwards and permits k (W for Store, R for Load, X for Instruction).
C37_RecoveredFaultProgress ==
    halt = "ok" =>
        \A a \in live : \A vpn \in VPNS : \A kind \in FaultTypes :
            \A res \in {MemorySet_page_fault(Cur, a, vpn, kind)} :
                Traps(a, vpn, kind) /\ res.st = "ok" /\ res.ret = 0 =>
                    /\ PTEValid(res.pt[<<a, vpn>>])
                    /\ KindBit(kind) \in res.pt[<<a, vpn>>].flags

\* the page of vpn in address space a is a Framed page that is still Lazy, or a file page
\* with no valid entry yet
FaultsFresh(a, vpn) ==
    /\ ~PTEValid(pt[<<a, vpn>>])
    /\ fmap[<<a, vpn>>].t = "Lazy" \/ filemap[<<a, vpn>>] # NoPos

\* C38: concurrent faults on one page do not panic. When two threads of one address
\* space both trap on the same Lazy Framed page or the same non-resident file page, each
\* with a fault that page_fault alone would recover, and the two page_fault calls run one
\* after the other in either order, both return 0, neither panics, and exactly one frame
\* is allocated.
C38_ConcurrentFaults ==
    halt = "ok" =>
        \A a \in live : \A vpn \in VPNS : \A k1 \in FaultTypes : \A k2 \in FaultTypes :
            \A alone \in {MemorySet_page_fault(Cur, a, vpn, k2)} :
            \A r1 \in {MemorySet_page_fault(Cur, a, vpn, k1)} :
            \A r2 \in {MemorySet_page_fault(r1, a, vpn, k2)} :
                /\ FaultsFresh(a, vpn)
                /\ r1.st = "ok" /\ r1.ret = 0
                /\ alone.st = "ok" /\ alone.ret = 0
                => /\ r2.st = "ok"
                   /\ r2.ret = 0
                   /\ Cardinality(r2.used \ used) = 1

\* ---------------------------------------------------------- frame conservation
\* the frames the frame tracker has taken from the allocator: the allocated frames
\* that are not the resident page of a file position
TrackerFrames(st) == st.used \ {st.files[pos] : pos \in FilePosSet}

\* the entries whose record is Ownd(f), and the entries whose record refers to f at all
Owners(st, f) == {k \in Keys : st.fmap[k] = OwndRec(f)}
Referers(st, f) == Owners(st, f) \cup Holders(st, f)

\* MFrameHandle::drop of every entry of the sequence ks, one after the other
RECURSIVE UnmapAll(_, _, _)
UnmapAll(st, ks, i) ==
    IF i > Len(ks) THEN st
    ELSE UnmapAll(MFrame_unmap(st, ks[i]), ks, i + 1)

\* the tracked entries in one order
RECURSIVE KeySeq(_)
KeySeq(S) ==
    IF S = {} THEN <<>>
    ELSE LET k == CHOOSE x \in S : \A y \in S : KeyIndex(x) <= KeyIndex(y) IN
         <<k>> \o KeySeq(S \ {k})

\* C40: every frame the tracker has allocated is held by exactly one Owned record or by
\* COW records only (the count of the shared handle is the number of those records), a
\* frame is allocated exactly as long as a record refers to it, a valid entry of a record
\* points at an allocated frame, dropping a record returns its frame exactly when it was
\* the last one referring to it, and dropping every record leaves no tracker frame
C40_FrameConservation ==
    /\ \A f \in Frames :
        /\ f \in TrackerFrames(Cur) <=> Referers(Cur, f) # {}
        /\ Cardinality(Owners(Cur, f)) <= 1
        /\ Owners(Cur, f) # {} => Holders(Cur, f) = {}
        /\ StrongCount(Cur, f) = Cardinality(Holders(Cur, f))
    /\ \A k \in Keys :
        fmap[k].t \in {"Ownd", "COW"} /\ PTEValid(pt[k]) =>
            pt[k].ppn = fmap[k].f /\ pt[k].ppn \in used
    /\ halt = "ok" =>
        /\ \A k \in Keys :
            fmap[k].t \in {"Ownd", "COW"} =>
                \A r \in {MFrame_unmap(Cur, k)} :
                    /\ fmap[k].f \notin r.used <=> Referers(Cur, fmap[k].f) = {k}
                    /\ r.used \ {fmap[k].f} = used \ {fmap[k].f}
                    /\ ~PTEValid(r.pt[k])
        /\ \A r \in {UnmapAll(Cur, KeySeq({k \in Keys : fmap[k].t # "None"}), 1)} :
            TrackerFrames(r) = {}

\* the frame the first page was built on has gone back to the allocator (it was shared,
\* copied away from and dropped by its last holder) while another frame is shared by
\* two COW records and a third entry owns a frame alone
C40_Witness ==
    /\ halt = "ok"
    /\ KeyIndex(<<1, 0>>) \notin used
    /\ fmap[<<1, 0>>].t \in {"Ownd", "COW"}
    /\ \E f \in Frames : Cardinality(Holders(Cur, f)) >= 2
    /\ \E f \in Frames : Owners(Cur, f) # {}

\* ------------------------------------------------- semaphore system calls
\* a step of a semaphore system call of one thread; the sections under the process lock
\* are atomic, the calls of Semaphore::up and Semaphore::down fall between them
SemStep(r) ==
    /\ sem' = r
    /\ UNCHANGED <<vars, image, parent, fs, boot>>

SemCreate(t, res_count) ==
    /\ sem.st = "ok" /\ sem.pc[t] = "user"
    /\ Len(sem.locks) < MaxSems
    /\ SemStep(sys_semaphore_create(sem, t, res_count))

SemUpPre(t, id) ==
    /\ sem.st = "ok" /\ sem.pc[t] = "user"
    /\ id < Len(sem.locks)
    /\ SemStep(sys_semaphore_up_pre(sem, t, id))

SemUpSem(t) ==
    /\ sem.st = "ok" /\ sem.pc[t] = "up_sem"
    /\ SemStep(sys_semaphore_up_sem(sem, t))

SemUpPost(t) ==
    /\ sem.st = "ok" /\ sem.pc[t] = "up_post"
    /\ SemStep(sys_semaphore_up_post(sem, t))

SemDownPre(t, id) ==
    /\ sem.st = "ok" /\ sem.pc[t] = "user"
    /\ id < Len(sem.locks)
    /\ SemStep(sys_semaphore_down_pre(sem, t, id))

SemDownSem(t) ==
    /\ sem.st = "ok" /\ sem.pc[t] = "down_sem"
    /\ SemStep(sys_semaphore_down_sem(sem, t))

SemDownPost(t) ==
    /\ sem.st = "ok" /\ sem.pc[t] = "down_post"
    /\ SemStep(sys_semaphore_down_post(sem, t))

NextSem ==
    \/ \E t \in Tids, res_count \in 0 .. MaxRes : SemCreate(t, res_count)
    \/ \E t \in Tids, id \in SemIds : SemUpPre(t, id)
    \/ \E t \in Tids : SemUpSem(t)
    \/ \E t \in Tids : SemUpPost(t)
    \/ \E t \in Tids, id \in SemIds : SemDownPre(t, id)
    \/ \E t \in Tids : SemDownSem(t)
    \/ \E t \in Tids : SemDownPost(t)

SpecSem == Init /\ [][NextSem]_allvars

\* the bookkeeping of the detection never went through a failed assertion or below zero
SemSound ==
    /\ sem.st = "ok"
    /\ \A i \in 1 .. Len(sem.avail) : sem.avail[i] >= 0
    /\ \A t \in 1 .. Len(sem.alloc) : \A i \in 1 .. Len(sem.alloc[t]) : sem.alloc[t][i] >= 0
    /\ \A t \in 1 .. Len(sem.q) : \A i \in 1 .. Len(sem.q[t]) : sem.q[t][i] >= 0

\* ------------------------------------------------------ deadlock detection
\* entry (t, i) of a matrix of the detection, entry i of avail; what was never pushed is 0
Cell(m, t, i) ==
    IF t + 1 <= Len(m) /\ i + 1 <= Len(m[t + 1]) THEN m[t + 1][i + 1] ELSE 0
AvailAt(d, i) == IF i + 1 <= Len(d.avail) THEN d.avail[i + 1] ELSE 0

\* the request matrix with the request of thread t for semaphore id added
Request(d, t, id, u, i) == Cell(d.q, u, i) + (IF u = t /\ i = id THEN 1 ELSE 0)

\* work after the threads of F have finished: avail plus their allocations
RECURSIVE WorkOf(_, _, _)
WorkOf(d, F, i) ==
    IF F = {} THEN AvailAt(d, i)
    ELSE LET u == CHOOSE x \in F : TRUE IN Cell(d.alloc, u, i) + WorkOf(d, F \ {u}, i)

\* the detection procedure as a fixpoint: every thread whose requests are within work
\* finishes, until none is left that can
RECURSIVE Finished(_, _, _, _)
Finished(d, t, id, F) ==
    LET more == {u \in Tids \ F : \A i \in SemIds : Request(d, t, id, u, i) <= WorkOf(d, F, i)} IN
    IF more = {} THEN F ELSE Finished(d, t, id, F \cup more)

Unfinished(d, t, id) ==
    Tids \ Finished(d, t, id, {u \in Tids : \A i \in SemIds : Cell(d.alloc, u, i) = 0})

\* C36: sys_semaphore_down returns -0xDEAD, without calling down and without blocking,
\* exactly when the detection procedure with the caller's request added leaves a thread
\* unfinished, otherwise it goes on to call down; has_deadlock_if_wait_for answers the
\* same and leaves every value of alloc, avail and the request matrix as it was
C36_DeadlockDetection ==
    sem.st = "ok" =>
        \A t \in Tids, id \in SemIds :
            id < Len(sem.locks) =>
                /\ \A h \in {has_deadlock_if_wait_for(sem, t, id)} :
                    /\ h.d.st = "ok"
                    /\ h.deadlock <=> Unfinished(sem, t, id) # {}
                    /\ h.d.avail = sem.avail
                    /\ \A u \in Tids, i \in SemIds :
                        /\ Cell(h.d.alloc, u, i) = Cell(sem.alloc, u, i)
                        /\ Cell(h.d.q, u, i) = Cell(sem.q, u, i)
                /\ sem.pc[t] = "user" =>
                    \A r \in {sys_semaphore_down_pre(sem, t, id)} :
                        /\ r.st = "ok"
                        /\ r.locks = sem.locks
                        /\ Unfinished(sem, t, id) # {} =>
                            r.ret = 0 - DEAD /\ r.pc = sem.pc
                        /\ Unfinished(sem, t, id) = {} =>
                            r.pc = [sem.pc EXCEPT ![t] = "down_sem"] /\ r.arg[t] = id

\* a down was refused with -0xDEAD while the caller held a semaphore that another
\* thread is blocked on
C36_Witness ==
    /\ sem.st = "ok"
    /\ sem.ret = 0 - DEAD
    /\ \E t \in Tids : sem.pc[t] = "blocked"
    /\ \E t \in Tids, i \in SemIds : sem.pc[t] = "user" /\ Cell(sem.alloc, t, i) > 0

\* C39: with sys_semaphore_up of a thread that holds the semaphore interleaved with
\* sys_semaphore_down of another thread, the assertion of post_wait_succ and the
\* assertion of pre_release never fail and no counter of alloc, avail or the request
\* matrix goes below zero
C39_BookkeepingAssertions ==
    /\ sem.st # "assert post_wait_succ"
    /\ \A i \in 1 .. Len(sem.avail) : sem.avail[i] >= 0
    /\ \A t \in 1 .. Len(sem.alloc) : \A i \in 1 .. Len(sem.alloc[t]) : sem.alloc[t][i] >= 0
    /\ \A t \in 1 .. Len(sem.q) : \A i \in 1 .. Len(sem.q[t]) : sem.q[t][i] >= 0
    /\ sem.st = "ok" =>
        \A t \in Tids, id \in SemIds :
            sem.pc[t] = "user" /\ Cell(sem.alloc, t, id) > 0 =>
                pre_release(sem, t, id).st = "ok"

====
